---- MODULE Spec2Model ----
(***************************************************************************)
(* IEC 60870-5-104 master protocol engine (iec104_class) together with its *)
(* Qt transport adapter (QIec104).  The engine is single threaded: every   *)
(* action below is one complete callback (a socket slot, the one-second    *)
(* timer slot, or a host call) run to completion.                          *)
(***************************************************************************)
EXTENDS Integers, Sequences, FiniteSets, TLC

(***************************************************************************)
(* Bounds of the model.                                                    *)
(***************************************************************************)
MaxSends == 3        \* I-frames a session may send before the model stops sending
MaxGIObjects == 3    \* cap on the GI object counter
MaxRecvSeq == 3      \* largest in-window send number the peer uses
MaxGarbage == 3      \* garbage bytes the peer writes before a valid APDU

(***************************************************************************)
(* Timer constants, in ticks.  The class header that sets them is not part *)
(* of the sources at hand; the engine only loads and counts them down.     *)
(***************************************************************************)
t1_startdtact == 3
t2_supervisory == 4
t3_testfr == 3
gi_retry_time == 2

(***************************************************************************)
(* Protocol constants.  The start byte and the control-field codes of the  *)
(* U- and S-format frames are those of IEC 60870-5-104.                    *)
(***************************************************************************)
START == 104         \* 0x68
SUPERVISORY == 1
STARTDTACT == 7
STARTDTCON == 11
TESTFRACT == 67
TESTFRCON == 131
STOPDTACT == 19
STOPDTCON == 35
GIStartDelay == 15   \* tout_gi = 15 on STARTDTCON
DefaultGIPeriod == 330
GIQualifier == 20    \* 0x14, station interrogation
GIFrameLength == 14  \* 0x0E
ConfTestLength == 22
INTERROGATION == 100
C_RP_NA_1 == 105
C_TS_NA_1 == 104
C_TS_TA_1 == 107
ACTIVATION == 6
DEACTIVATION == 8
ACTCONFIRM == 7
ACTTERM == 10
INROGEN == 20
INRO16 == 36
IntMax == 2147483647 \* int is 32 bits wide
TryPeriod == 5
SeqWidth == 65536    \* NS, NR and VR_NEW are 16-bit words
StoredWidth == 65536 \* the members VS, VR and test_command_count likewise

\* a value written to a uint16_t field of an APDU
U16(x) == x % SeqWidth

\* a value assigned to one of the 16-bit members
Stored(x) == x % StoredWidth

\* mutant: the S-format bit of the received number is kept
ClearBit0_keepsBit(ns) == ns

\* NS & 0xFFFE
ClearBit0(ns) == ns - (ns % 2)

MonitoringTypes == {1, 3, 5, 7, 9, 11, 13, 15, 20, 21, 30, 31, 32, 33, 34, 35,
                    36, 37, 38, 39, 40}

CommandRespTypes == {45, 46, 47, 48, 49, 50, 58, 59, 60, 61, 62, 63, 102, 110,
                     111, 112, 113}

\* the types sendCommand's switch handles
SendCommandTypes == {45, 46, 47, 48, 49, 50, 58, 59, 60, 61, 62, 63, 101, 102,
                     103, 105, 107, 110, 111, 112, 113}

\* apducmd.length: sizeof(NS)+sizeof(NR)+sizeof(asduh)+sizeof(<object>)
CmdLength(type) ==
  CASE type \in {45, 46, 47, 113, 101} -> 14
    [] type \in {58, 59, 60} -> 21
    [] type \in {48, 49, 110, 111} -> 16
    [] type \in {61, 62} -> 23
    [] type \in {50, 112} -> 18
    [] type = 63 -> 25
    [] type = 103 -> 20
    [] type \in {105, 107} -> 22
    [] type = 102 -> 13
    [] OTHER -> 0

VARIABLES
  connectedTCP, TxOk, VS, VR, test_command_count,
  tout_startdtact, tout_supervisory, tout_testfr, tout_gi,
  GIObjectCnt, gi_period, seq_order_check,
  sock,      \* tcps->state() == ConnectedState
  mEnding,   \* QIec104::mEnding
  mAllowConnect, \* QIec104::mAllowConnect
  cnts,      \* slot_keep_alive's static cnts, modulo TryPeriod
  cnt,       \* connectTCP's static cnt, modulo 2
  backupIP,  \* slaveIP_backup is not the empty string
  pending,   \* the address the socket is connecting to, or "none"
  broken_msg, \* a frame was left incomplete by the last packetReadyTCP
  wire,      \* what the peer wrote in this session and what of it is under way
  handed,    \* APDUs the last callback handed to parseAPDU, as bytes
  tcpCalls,  \* calls of sendTCP the last callback made
  slaveAddress, \* common address of the slave
  cmdObj,    \* the object of the last sendCommand: as given, as left
  out,       \* frames written to the socket by the last callback
  up,        \* host upcalls made by the last callback
  op,        \* the last callback and its input
  hist       \* observers kept for the properties (not engine state)

vars == <<connectedTCP, TxOk, VS, VR, test_command_count, tout_startdtact,
          tout_supervisory, tout_testfr, tout_gi, GIObjectCnt, gi_period,
          seq_order_check, sock, mEnding, broken_msg, wire, handed, tcpCalls,
          slaveAddress, cmdObj, mAllowConnect, cnts, cnt, backupIP, pending,
          out, up, op, hist>>

msg_supervisory == TRUE

\* the engine at the entry of a callback: nothing sent, no upcall yet; rx is
\* what the socket holds to read, empty again when packetReadyTCP returns
Eng == [connectedTCP |-> connectedTCP, TxOk |-> TxOk, VS |-> VS, VR |-> VR,
        test_command_count |-> test_command_count,
        tout_startdtact |-> tout_startdtact,
        tout_supervisory |-> tout_supervisory,
        tout_testfr |-> tout_testfr, tout_gi |-> tout_gi,
        GIObjectCnt |-> GIObjectCnt, gi_period |-> gi_period,
        seq_order_check |-> seq_order_check, sock |-> sock,
        mEnding |-> mEnding, broken_msg |-> broken_msg, rx |-> <<>>,
        handed |-> <<>>, tcpCalls |-> 0, slaveAddress |-> slaveAddress,
        given |-> cmdObj.given, obj |-> cmdObj.left,
        mAllowConnect |-> mAllowConnect, cnts |-> cnts, cnt |-> cnt,
        backupIP |-> backupIP, pending |-> pending, out |-> <<>>,
        up |-> <<>>]

\* the engine as the callback leaves it
Commit(s) ==
  /\ connectedTCP' = s.connectedTCP
  /\ TxOk' = s.TxOk
  /\ VS' = s.VS
  /\ VR' = s.VR
  /\ test_command_count' = s.test_command_count
  /\ tout_startdtact' = s.tout_startdtact
  /\ tout_supervisory' = s.tout_supervisory
  /\ tout_testfr' = s.tout_testfr
  /\ tout_gi' = s.tout_gi
  /\ GIObjectCnt' = s.GIObjectCnt
  /\ gi_period' = s.gi_period
  /\ seq_order_check' = s.seq_order_check
  /\ broken_msg' = s.broken_msg
  /\ handed' = s.handed
  /\ tcpCalls' = s.tcpCalls
  /\ slaveAddress' = s.slaveAddress
  /\ mAllowConnect' = s.mAllowConnect
  /\ cnts' = s.cnts
  /\ cnt' = s.cnt
  /\ backupIP' = s.backupIP
  /\ pending' = s.pending
  /\ cmdObj' = [given |-> s.given, left |-> s.obj]
  /\ sock' = s.sock
  /\ mEnding' = s.mEnding
  /\ out' = s.out
  /\ up' = s.up

\* an APDU on the wire: the APCI and, for an I-frame, the ASDU fields
Frame(len, ns, nr, type, cause, qual, tsc) ==
  [length |-> len, NS |-> U16(ns), NR |-> U16(nr), type |-> type, num |-> 1,
   cause |-> cause, qual |-> qual, tsc |-> U16(tsc)]

UFrame(ns, nr) ==
  [length |-> 4, NS |-> ns, NR |-> nr, type |-> 0, num |-> 0, cause |-> 0,
   qual |-> 0, tsc |-> 0]

IsIFrame(f) == f.length > 4

\* an upcall: n records passed, the GI object counter at the call, and how
\* many of the records were read from behind the bytes received
Upcall(name, n, c) == [name |-> name, n |-> n, cnt |-> c, stale |-> 0]

\* QIec104::sendTCP: the engine's call, and the write if the socket is
\* connected
sendTCP(s, f) ==
  LET c == [s EXCEPT !.tcpCalls = @ + 1]
  IN IF s.sock /\ ~s.mEnding THEN [c EXCEPT !.out = Append(@, f)] ELSE c

sendStartDTACT(s) ==
  [sendTCP(s, UFrame(STARTDTACT, 0)) EXCEPT !.tout_startdtact = t1_startdtact]

\* mutant: the counters of the previous session survive the connect
onConnectTCP_keepsCounters(s) ==
  sendStartDTACT([s EXCEPT !.connectedTCP = TRUE, !.TxOk = FALSE])

onConnectTCP(s) ==
  sendStartDTACT([s EXCEPT !.connectedTCP = TRUE, !.TxOk = FALSE, !.VS = 0,
                           !.VR = 0, !.test_command_count = 0])

\* mutant: the disconnect leaves TxOk as it is
onDisconnectTCP_keepsTxOk(s) ==
  [s EXCEPT !.connectedTCP = FALSE, !.tout_startdtact = -1,
            !.tout_supervisory = -1, !.tout_gi = -1]

onDisconnectTCP(s) ==
  [s EXCEPT !.connectedTCP = FALSE, !.tout_startdtact = -1,
            !.tout_supervisory = -1, !.tout_gi = -1, !.TxOk = FALSE]

\* QIec104::disconnectTCP: tcps->abort() closes a connected socket, whose
\* disconnected() signal runs slot_tcpdisconnect before abort() returns
disconnectTCP(s) ==
  IF s.sock THEN onDisconnectTCP([s EXCEPT !.sock = FALSE, !.rx = <<>>])
  ELSE [s EXCEPT !.pending = "none"]

\* mutant: the S-frame acknowledges nothing
sendSupervisory_noAck(s) == sendTCP(s, UFrame(SUPERVISORY, 0))

sendSupervisory(s) == sendTCP(s, UFrame(SUPERVISORY, s.VR))

\* mutant: the request goes out but VS is not advanced
GIRequest_sameNumber(s, qual) ==
  [sendTCP(s, Frame(GIFrameLength, s.VS, s.VR, INTERROGATION, ACTIVATION,
                    qual, 0))
     EXCEPT !.tout_gi = gi_retry_time]

\* mutant: the request does not arm the retry
GIRequest_noRetry(s, qual) ==
  [sendTCP(s, Frame(GIFrameLength, s.VS, s.VR, INTERROGATION, ACTIVATION,
                    qual, 0))
     EXCEPT !.VS = Stored(s.VS + 2)]

GIRequest(s, qual) ==
  [sendTCP(s, Frame(GIFrameLength, s.VS, s.VR, INTERROGATION, ACTIVATION,
                    qual, 0))
     EXCEPT !.VS = Stored(s.VS + 2), !.tout_gi = gi_retry_time]

solicitGI(s) == GIRequest(s, GIQualifier)

solicitInterrogation(s, group) == GIRequest(s, group)

\* mutant: the confirmation does not count as a frame sent
confTestCommand_keepsVS(s) ==
  sendTCP(s, Frame(ConfTestLength, s.VS, s.VR, C_TS_TA_1, ACTCONFIRM, 0, 0))

confTestCommand(s) ==
  [sendTCP(s, Frame(ConfTestLength, s.VS, s.VR, C_TS_TA_1, ACTCONFIRM, 0, 0))
     EXCEPT !.VS = Stored(s.VS + 2)]

\* mutant: t1 gives up after one retry
TimerStartDT_once(s) ==
  LET a == IF s.tout_startdtact > 0
             THEN [s EXCEPT !.tout_startdtact = @ - 1] ELSE s
  IN IF a.tout_startdtact = 0
       THEN [sendStartDTACT(a) EXCEPT !.tout_startdtact = -1] ELSE a

\* t1: STARTDTACT retry
TimerStartDT(s) ==
  LET a == IF s.tout_startdtact > 0
             THEN [s EXCEPT !.tout_startdtact = @ - 1] ELSE s
  IN IF a.tout_startdtact = 0 THEN sendStartDTACT(a) ELSE a

\* mutant: the interrogation goes out one tick early
TimerGI_early(s) ==
  IF s.tout_gi > 0
    THEN LET a == [s EXCEPT !.tout_gi = @ - 1]
         IN IF a.tout_gi <= 1 THEN solicitGI(a) ELSE a
    ELSE s

\* tGI: general interrogation
TimerGI(s) ==
  IF s.tout_gi > 0
    THEN LET a == [s EXCEPT !.tout_gi = @ - 1]
         IN IF a.tout_gi = 0 THEN solicitGI(a) ELSE a
    ELSE s

\* mutant: t2 is decremented once per tick
TimerSupervisory_once(s) ==
  LET a == IF s.tout_supervisory > 0
             THEN [s EXCEPT !.tout_supervisory = @ - 1] ELSE s
  IN IF a.tout_supervisory = 0
       THEN sendSupervisory([a EXCEPT !.tout_supervisory = -1])
       ELSE a

\* t2: supervisory, decremented twice
TimerSupervisory(s) ==
  IF msg_supervisory
    THEN LET a == IF s.tout_supervisory > 0
                    THEN [s EXCEPT !.tout_supervisory = @ - 1] ELSE s
             b == IF a.tout_supervisory > 0
                    THEN [a EXCEPT !.tout_supervisory = @ - 1] ELSE a
         IN IF b.tout_supervisory = 0
              THEN sendSupervisory([b EXCEPT !.tout_supervisory = -1])
              ELSE b
    ELSE s

\* mutant: t3 starts again when it has run out
TimerTestFr_rearms(s) ==
  IF s.connectedTCP /\ s.TxOk /\ s.tout_testfr > 0
    THEN LET a == [s EXCEPT !.tout_testfr = @ - 1]
         IN IF a.tout_testfr = 0
              THEN [sendTCP(a, UFrame(TESTFRACT, 0))
                      EXCEPT !.tout_testfr = t3_testfr]
              ELSE a
    ELSE s

\* t3: TESTFRACT
TimerTestFr(s) ==
  IF s.connectedTCP /\ s.TxOk /\ s.tout_testfr > 0
    THEN LET a == [s EXCEPT !.tout_testfr = @ - 1]
         IN IF a.tout_testfr = 0 THEN sendTCP(a, UFrame(TESTFRACT, 0)) ELSE a
    ELSE s

onTimerSecond(s) ==
  TimerTestFr(IF s.connectedTCP
                THEN TimerSupervisory(TimerGI(TimerStartDT(s)))
                ELSE s)

\* a received APDU as packetReadyTCP hands it to parseAPDU: sz = length + 2
InFrame(sz, ns, type, cause, num) ==
  [start |-> START, sz |-> sz, NS |-> ns, type |-> type, cause |-> cause,
   num |-> num]

\* sizeof(iec_type<n>) of the monitoring types, packed
TypeSize ==
  [t \in MonitoringTypes |->
     CASE t \in {1, 3} -> 1
       [] t \in {5, 21} -> 2
       [] t \in {9, 11} -> 3
       [] t \in {7, 13, 15, 20} -> 5
       [] t \in {30, 31} -> 8
       [] t = 32 -> 9
       [] t \in {34, 35, 38} -> 10
       [] t \in {39, 40} -> 11
       [] OTHER -> 12]

\* bytes ahead of the information objects: APCI and ASDU header
HeaderSize == 12

\* an information object in an ASDU with sq = 0: ioa16, ioa8, obj
ObjectSize(type) == 3 + TypeSize[type]

\* the objects that lie within the sz bytes received
Covered(f) ==
  IF f.sz < HeaderSize THEN 0 ELSE (f.sz - HeaderSize) \div ObjectSize(f.type)

\* the objects the loop i < num reads from behind the bytes received
Stale(f) == IF f.num > Covered(f) THEN f.num - Covered(f) ELSE 0

NoFrame == [start |-> 0, sz |-> 0, NS |-> 0, type |-> 0, cause |-> 0, num |-> 0]

\* mutant: a TESTFRACT received restarts t3
parseControl_restartsT3(s, f) ==
  CASE f.NS = STARTDTACT -> sendTCP(s, UFrame(STARTDTCON, 0))
    [] f.NS = TESTFRACT ->
         [sendTCP(s, UFrame(TESTFRCON, 0)) EXCEPT !.tout_testfr = t3_testfr]
    [] f.NS = STARTDTCON ->
         [s EXCEPT !.tout_startdtact = -1, !.TxOk = TRUE,
                   !.tout_gi = GIStartDelay]
    [] OTHER -> s

\* mutant: a STOPDT sent or confirmed by the peer ends the data transfer
parseControl_stopDT(s, f) ==
  CASE f.NS = STARTDTACT -> sendTCP(s, UFrame(STARTDTCON, 0))
    [] f.NS = TESTFRACT -> sendTCP(s, UFrame(TESTFRCON, 0))
    [] f.NS = STARTDTCON ->
         [s EXCEPT !.tout_startdtact = -1, !.TxOk = TRUE,
                   !.tout_gi = GIStartDelay]
    [] f.NS \in {STOPDTACT, STOPDTCON} -> [s EXCEPT !.TxOk = FALSE]
    [] OTHER -> s

\* parseAPDU, sz == 6: control messages
parseControl(s, f) ==
  CASE f.NS = STARTDTACT -> sendTCP(s, UFrame(STARTDTCON, 0))
    [] f.NS = TESTFRACT -> sendTCP(s, UFrame(TESTFRCON, 0))
    [] f.NS = STARTDTCON ->
         [s EXCEPT !.tout_startdtact = -1, !.TxOk = TRUE,
                   !.tout_gi = GIStartDelay]
    [] OTHER -> s

\* mutant: the received number is compared with the next VR
SequenceError_nextVR(s, f) ==
  LET VR_NEW == ClearBit0(f.NS) IN VR_NEW # s.VR + 2 /\ VR_NEW # 2

\* VR_NEW != VR && VR_NEW != 2
SequenceError(s, f) ==
  LET VR_NEW == ClearBit0(f.NS) IN VR_NEW # s.VR /\ VR_NEW # 2

\* mutant: the sequence error is fatal whatever seq_order_check says
SequenceFatal_unconditional(s, f) == SequenceError(s, f)

\* the sequence error closes the connection: if (seq_order_check)
SequenceFatal(s, f) == SequenceError(s, f) /\ s.seq_order_check

\* mutant: every monitoring ASDU is counted, whatever its cause
parseMonitoring_countsAll(s, f) ==
  LET a == [s EXCEPT !.GIObjectCnt = @ + f.num]
  IN [a EXCEPT !.up = Append(@, Upcall("dataIndication", f.num,
                                       a.GIObjectCnt))]

\* the monitoring cases of the type switch: the loop reads num objects from
\* the buffer, whatever the size received
parseMonitoring(s, f) ==
  LET a == IF f.cause >= INROGEN /\ f.cause <= INRO16
             THEN [s EXCEPT !.GIObjectCnt = @ + f.num] ELSE s
  IN [a EXCEPT !.up = Append(@, [Upcall("dataIndication", f.num,
                                        a.GIObjectCnt)
                                   EXCEPT !.stale = Stale(f)])]

\* mutant: tGI is not restarted by the interrogation response
parseInterrogation_noRestart(s, f) ==
  CASE f.cause = ACTCONFIRM ->
         [s EXCEPT !.GIObjectCnt = 0,
                   !.up = Append(@, Upcall("interrogationActConfIndication",
                                           0, 0))]
    [] f.cause = ACTTERM ->
         [s EXCEPT !.up = Append(@, Upcall("interrogationActTermIndication",
                                           0, s.GIObjectCnt))]
    [] OTHER -> s

\* case INTERROGATION
parseInterrogation(s, f) ==
  LET a == [s EXCEPT !.tout_gi = s.gi_period]
  IN CASE f.cause = ACTCONFIRM ->
            [a EXCEPT !.GIObjectCnt = 0,
                      !.up = Append(@, Upcall("interrogationActConfIndication",
                                              0, 0))]
       [] f.cause = ACTTERM ->
            [a EXCEPT !.up = Append(@, Upcall("interrogationActTermIndication",
                                              0, a.GIObjectCnt))]
       [] OTHER -> a

\* mutant: command responses are not passed on to the host
parseASDU_silentCommands(s, f) ==
  CASE f.type \in MonitoringTypes -> parseMonitoring(s, f)
    [] f.type = INTERROGATION -> parseInterrogation(s, f)
    [] f.type = C_TS_TA_1 ->
         IF f.cause = ACTIVATION THEN confTestCommand(s) ELSE s
    [] OTHER -> s

\* switch (papdu->asduh.type)
parseASDU(s, f) ==
  CASE f.type \in MonitoringTypes -> parseMonitoring(s, f)
    [] f.type \in CommandRespTypes ->
         [s EXCEPT !.up = Append(@, Upcall("commandActRespIndication", 1,
                                           s.GIObjectCnt))]
    [] f.type = INTERROGATION -> parseInterrogation(s, f)
    [] f.type = C_TS_TA_1 ->
         IF f.cause = ACTIVATION THEN confTestCommand(s) ELSE s
    [] OTHER -> s

\* mutant: t2 is armed by an I-frame and counted down by the timer only
AccountIFrame_armsOnly(s) ==
  LET a == [s EXCEPT !.tout_testfr = t3_testfr]
  IN IF a.tout_supervisory < 0
       THEN [a EXCEPT !.tout_supervisory = t2_supervisory] ELSE a

\* the closing accounting of a data message: t3 and the supervisory window
AccountIFrame(s) ==
  LET a == [s EXCEPT !.tout_testfr = t3_testfr]
  IN IF msg_supervisory
       THEN LET b == IF a.tout_supervisory < 0
                       THEN [a EXCEPT !.tout_supervisory = t2_supervisory]
                       ELSE a
                c == IF b.tout_supervisory > 0
                       THEN [b EXCEPT !.tout_supervisory = @ - 1] ELSE b
            IN IF c.tout_supervisory = 0
                 THEN sendSupervisory([c EXCEPT !.tout_supervisory = -1])
                 ELSE c
       ELSE sendSupervisory(a)

parseAPDU(s, f, accountandrespond) ==
  IF f.start # START THEN s
  ELSE IF f.sz = 6
    THEN IF accountandrespond THEN parseControl(s, f) ELSE s
  ELSE IF accountandrespond /\ SequenceFatal(s, f)
    THEN disconnectTCP(s)
  ELSE LET a == IF accountandrespond
                  THEN [s EXCEPT !.VR = Stored(ClearBit0(f.NS) + 2)] ELSE s
           b == parseASDU(a, f)
       IN IF accountandrespond THEN AccountIFrame(b) ELSE b

Take(bytes, n) == SubSeq(bytes, 1, n)
Drop(bytes, n) == SubSeq(bytes, n + 1, Len(bytes))

\* the fields parseAPDU reads of an APDU given as bytes: the 16-bit NS of
\* the APCI and, of a frame that has them, the ASDU's type, number and cause
Decode(b) ==
  [start |-> b[1], sz |-> Len(b), NS |-> b[3] + 256 * b[4],
   type |-> IF Len(b) >= 7 THEN b[7] ELSE 0,
   cause |-> IF Len(b) >= 9 THEN b[9] % 64 ELSE 0,
   num |-> IF Len(b) >= 8 THEN b[8] % 128 ELSE 0]

FindStart_first(rx) == IF rx = <<>> THEN 0 ELSE 1

\* packetReadyTCP's scan, one readTCP(br, 1) at a time until byt == START:
\* the place of the first START byte readable, 0 when there is none
FindStart(rx) ==
  IF \E i \in 1..Len(rx) : rx[i] = START
    THEN CHOOSE i \in 1..Len(rx) :
           rx[i] = START /\ \A j \in 1..(i - 1) : rx[j] # START
    ELSE 0

\* packetReadyTCP's while(true) loop.  hdr is br[0], br[1] once the header of
\* a frame is held, <<>> while the loop has yet to scan for it.  Both waits
\* (waitBytes) have passed: what s.rx holds is all that can be read.
RECURSIVE packetReadyLoop(_, _)
packetReadyLoop(s, hdr) ==
  IF hdr = <<>>
    THEN LET i == FindStart(s.rx)
         IN IF i = 0 \/ i = Len(s.rx)
              THEN [s EXCEPT !.rx = <<>>]       \* readTCP returned 0: return
              ELSE packetReadyLoop([s EXCEPT !.rx = Drop(@, i + 1)],
                                   <<START, s.rx[i + 1]>>)
    ELSE LET len == hdr[2]
         IN IF len < 4
              THEN packetReadyLoop([s EXCEPT !.broken_msg = FALSE], <<>>)
            ELSE IF Len(s.rx) < len
              THEN [s EXCEPT !.rx = <<>>, !.broken_msg = TRUE]
            ELSE LET apdu == hdr \o Take(s.rx, len)
                     a == [s EXCEPT !.rx = Drop(@, len), !.broken_msg = FALSE,
                                    !.handed = Append(@, apdu)]
                     b == parseAPDU(a, Decode(apdu), TRUE)
                 IN IF b.rx = <<>> THEN b ELSE packetReadyLoop(b, <<>>)

\* packetReadyTCP: with broken_msg set the scan is skipped and br[0], br[1]
\* are read from the new local apdu, which nothing has written: stale is
\* what they happen to hold
packetReadyTCP(s, stale) ==
  packetReadyLoop(s, IF s.broken_msg THEN stale ELSE <<>>)

\* sendCommand: the frame of a supported type; junk is the never-assigned
\* asduh.type of the C_RP_NA_1 case
\* sendCommand, ahead of the switch: obj->cause = ACTIVATION and, for an
\* object without common address, obj->ca = slaveAddress
sendCommandPrepare(s) ==
  [s EXCEPT !.obj = [cause |-> ACTIVATION,
                     ca |-> IF @.ca = 0 THEN s.slaveAddress ELSE @.ca]]

\* mutant: every command takes a number of the test sequence
sendCommand_countsAll(s, type, junk) ==
  LET p == sendCommandPrepare(s)
  IN IF type \in SendCommandTypes
       THEN LET tsc == IF type = C_TS_TA_1 THEN p.test_command_count ELSE 0
                ty == IF type = C_RP_NA_1 THEN junk ELSE type
                a == sendTCP(p, Frame(CmdLength(type), p.VS, p.VR, ty,
                                      p.obj.cause, 0, tsc))
            IN [a EXCEPT !.VS = Stored(@ + 2),
                         !.test_command_count = Stored(@ + 1)]
       ELSE p

sendCommand(s, type, junk) ==
  LET p == sendCommandPrepare(s)
  IN IF type \in SendCommandTypes
       THEN LET tsc == IF type = C_TS_TA_1 THEN p.test_command_count ELSE 0
                ty == IF type = C_RP_NA_1 THEN junk ELSE type
                a == sendTCP(p, Frame(CmdLength(type), p.VS, p.VR, ty,
                                      p.obj.cause, 0, tsc))
            IN [a EXCEPT !.VS = Stored(@ + 2),
                         !.test_command_count =
                            IF type = C_TS_TA_1 THEN Stored(@ + 1) ELSE @]
       ELSE p

setSecondaryAddress(s, addr) == [s EXCEPT !.slaveAddress = U16(addr)]

\* int(period) of an unsigned period
ToInt(period) ==
  IF period > IntMax THEN period - IntMax - IntMax - 2 ELSE period

setGIPeriod(s, period) == [s EXCEPT !.gi_period = ToInt(period)]

disableSequenceOrderCheck(s) == [s EXCEPT !.seq_order_check = FALSE]

\* QIec104::terminate
terminate(s) == disconnectTCP([s EXCEPT !.mEnding = TRUE])

\* mutant: every attempt goes to the primary address
connectTCP_primaryOnly(s) ==
  LET a == disconnectTCP(s)
  IN IF ~a.mEnding /\ a.mAllowConnect
       THEN [a EXCEPT !.cnt = (@ + 1) % 2, !.pending = "primary"]
       ELSE a

\* QIec104::connectTCP: abort, then connectToHost to the primary address on
\* odd counts or without backup address, to the backup address otherwise
connectTCP(s) ==
  LET a == disconnectTCP(s)
      n == (a.cnt + 1) % 2
  IN IF ~a.mEnding /\ a.mAllowConnect
       THEN [a EXCEPT !.cnt = n,
                      !.pending = IF n # 0 \/ ~a.backupIP
                                    THEN "primary" ELSE "backup"]
       ELSE a

\* mutant: the attempt is made whatever the host allows
keepAlive_ignoresAllow(s) ==
  LET a == [s EXCEPT !.cnts = (@ + 1) % TryPeriod]
      b == IF a.cnts = 0 /\ ~a.sock
             THEN connectTCP([a EXCEPT !.mAllowConnect = TRUE]) ELSE a
  IN onTimerSecond([b EXCEPT !.mAllowConnect = a.mAllowConnect])

\* QIec104::slot_keep_alive, !mEnding
keepAlive(s) ==
  LET a == [s EXCEPT !.cnts = (@ + 1) % TryPeriod]
      b == IF a.cnts = 0 /\ ~a.sock /\ a.mAllowConnect
             THEN connectTCP(a) ELSE a
  IN onTimerSecond(b)

\* QIec104::disable_connect, enable_connect
disable_connect(s) ==
  LET a == [s EXCEPT !.mAllowConnect = FALSE]
  IN IF a.sock THEN disconnectTCP(a) ELSE a

enable_connect(s) == [s EXCEPT !.mAllowConnect = TRUE]

\* setSecondaryIP_backup; given says whether ip is not ""
setSecondaryIP_backup(s, given) == [s EXCEPT !.backupIP = given]

(***************************************************************************)
(* The environment: what the peer sends and what the host asks for.        *)
(***************************************************************************)
MaxGIPeriod == 3     \* GI periods the host configures: 0..MaxGIPeriod

CtlFrame(code) == InFrame(6, code, 0, 0, 0)

\* an I-frame carrying ASDU a = <<type, cause, num>>, of which the first
\* k objects were received
ShortFrame(ns, a, k) ==
  InFrame(HeaderSize + k * ObjectSize(a[1]), ns, a[1], a[2], a[3])

\* an I-frame carrying ASDU a = <<type, cause, num>>: a monitoring ASDU with
\* its num objects, any other as 16 bytes
DataFrame(ns, a) ==
  IF a[1] \in MonitoringTypes THEN ShortFrame(ns, a, a[3])
  ELSE InFrame(16, ns, a[1], a[2], a[3])

\* send numbers of received data frames (shifted): the window, one with the
\* S-format bit set, and the last one before the wrap
RecvNS == {2 * n : n \in 0..MaxRecvSeq} \cup {5, SeqWidth - 2}

\* an APDU of length 6, sz 8: the control field and two more bytes; the
\* ASDU header a is what the receive buffer holds behind them
RuntFrame(ns, a) == InFrame(8, ns, a[1], a[2], a[3])

\* link scenario: control frames, a spontaneous single point, test commands
LinkFrames ==
  {CtlFrame(c) : c \in {STARTDTCON, TESTFRACT}}
    \cup {DataFrame(ns, a) : ns \in RecvNS, a \in {<<1, 3, 1>>, <<107, 6, 1>>}}

LinkCommands == {45, 100, 107}

\* timer scenario: the peer keeps the sequence and answers interrogations
TimerFrames ==
  {CtlFrame(c) :
     c \in {STARTDTCON, TESTFRCON, TESTFRACT, STARTDTACT, SUPERVISORY}}
    \cup {DataFrame(VR, a) : a \in {<<100, 7, 1>>, <<100, 10, 1>>}}

\* control frames the switch of parseAPDU only logs
QuietFrames ==
  {CtlFrame(c) : c \in {STOPDTACT, STOPDTCON, TESTFRCON, SUPERVISORY}}

\* accounting scenario: interrogation responses, other monitoring data,
\* test commands of both types, and the control frames
AcctFrames ==
  {CtlFrame(STARTDTCON)} \cup QuietFrames
    \cup {DataFrame(VR, a) :
            a \in {<<1, 20, 1>>, <<1, 20, 2>>, <<36, 36, 1>>, <<1, 3, 2>>,
                   <<13, 19, 1>>, <<13, 37, 1>>, <<45, 7, 1>>, <<100, 7, 1>>,
                   <<100, 10, 1>>, <<100, 6, 1>>, <<107, 6, 1>>,
                   <<107, 10, 1>>, <<104, 6, 1>>}}
    \cup {ShortFrame(VR, <<1, 3, 2>>, 1), ShortFrame(VR, <<13, 3, 1>>, 0)}
    \cup {RuntFrame(VR, a) : a \in {<<1, 3, 1>>, <<0, 0, 0>>}}
    \cup {DataFrame(VR + 1, <<1, 3, 1>>)}

\* wrap scenario: the expected send number, one with the S-format bit set,
\* and the last one before the wrap
WrapFrames ==
  {CtlFrame(TESTFRACT)}
    \cup {DataFrame(ns, a) : ns \in {VR, 5, SeqWidth - 2},
                             a \in {<<1, 3, 1>>, <<107, 6, 1>>}}

JunkBytes == {0, 105}

\* objects the host passes to sendCommand: cause of transmission and common
\* address; PlainObj is one the call leaves as it is
PlainObj == [cause |-> ACTIVATION, ca |-> 1]

CmdObjs == [cause : {ACTIVATION, DEACTIVATION}, ca : {0, 1}]

SlaveAddresses == {0, 2}

\* types for sendCommand: two the switch handles, four it does not
CmdTypes == {45, C_TS_TA_1, 0, 1, INTERROGATION, 200}

Groups == {1, 16}

AllowedVS == (0..(2 * MaxSends)) \cup {SeqWidth - 4, SeqWidth - 2}

\* the counters the model stops at
InBounds(s) ==
  /\ s.VS \in AllowedVS
  /\ s.GIObjectCnt <= MaxGIObjects
  /\ \/ s.test_command_count <= MaxSends
     \/ s.test_command_count >= StoredWidth - 2

\* byte streams of the peer: garbage of up to MaxGarbage bytes, then a
\* TESTFR act or a STARTDT con
GarbageBytes == {0, 2, 4, START}

Garbage ==
  UNION {[1..n -> GarbageBytes] : n \in 0..MaxGarbage}

ValidAPDUs ==
  {<<START, 4, TESTFRACT, 0, 0, 0>>, <<START, 4, STARTDTCON, 0, 0, 0>>}

\* what the unwritten br[0], br[1] of a resumed packetReadyTCP may hold
StaleHeaders == {<<0, 0>>, <<0, 4>>, <<START, 2>>, <<START, 4>>}

(***************************************************************************)
(* Observers.                                                              *)
(***************************************************************************)
IFrames(frames) == SelectSeq(frames, IsIFrame)

\* a general-interrogation request: type 100, cause 6, qualifier 0x14
IsGIFrame(f) == f.length > 4 /\ f.type = 100 /\ f.cause = 6 /\ f.qual = 20

GIFrames(frames) == SelectSeq(frames, IsGIFrame)

IsData(f) == f.start = START /\ f.sz # 6

\* the STARTDTACT frames among the frames written
IsStartDTAct(f) == f.length = 4 /\ f.NS = STARTDTACT

StartDTActs(frames) == SelectSeq(frames, IsStartDTAct)

\* the S-frames among the frames written
IsSFrame(f) == f.length = 4 /\ f.NS = SUPERVISORY

SFrames(frames) == SelectSeq(frames, IsSFrame)

NoT2 == [n |-> -1, k |-> 0]

NoPart == [n |-> 0, done |-> FALSE]

NoStartIn(bytes) == \A i \in 1..Len(bytes) : bytes[i] # START

Op(name, f, arg, flag) == [name |-> name, f |-> f, arg |-> arg, flag |-> flag]

NoArm == [p |-> -1, n |-> 0, c |-> 0]

\* sinceCon: ticks since the last STARTDTCON of this session with no type-100
\*           frame, no host GI request and no connect or disconnect since
\* closed:   a disconnect was seen and no connect since
\* inOrder:  the I-frames received since connect carried 0, 1, .., inOrder-1
\* accepted: an I-frame was accepted in this session
\* base:     VS when the session began
\* iSent:    I-frames written to the socket in this session
\* giArm:    p = the gi_period tGI was armed with by a type-100 frame,
\*           n = ticks since with nothing else in between, c = GI requests sent
\* giM:      objects of interrogation responses since the last ACT-CON
\* giSkip:   a monitoring ASDU of another cause arrived since that ACT-CON
\* actAge:   ticks since the last STARTDTACT was written, -1 once STARTDTCON
\*           arrived or the connection was lost
\* lastNS:   the send number of the last I-frame accepted since connect
\* t2:       n = tout_supervisory as the last accepted I-frame left it,
\*           k = ticks since that began with t2 armed
\* tries:    the last two connect attempts, latest first: the address,
\*           whether a backup address was configured, and connectTCP's
\*           counter modulo 2 after it counted the attempt
\* part:     n = the bytes of the valid APDU read by a readyRead that began
\*           with no frame pending, behind garbage without START, and
\*           ended short of the whole frame; done = the readyRead after it
\*           found all the bytes that were left
\* run:      I-frames accepted since the connect or the last S-frame written
\*           with no tick in between; -1 once a tick found t2 armed
\* tests:    type-107 frames sendCommand has written since connect, modulo
\*           2^16; -1 without a session
NextHist(name, f, pre, post) ==
  LET h == hist
      lost == pre.sock /\ ~post.sock
      data == name = "recv" /\ IsData(f) /\ post.sock
      gi100 == data /\ f.type = INTERROGATION
      nI == Len(IFrames(post.out))
  IN [sinceCon |->
        CASE name = "connect" \/ lost -> -1
          [] name = "recv" /\ f.sz = 6 /\ f.NS = STARTDTCON -> 0
          [] name \in {"solicitGI", "solicitInterrogation"} \/ gi100 -> -1
          [] h.sinceCon >= GIStartDelay -> -1
          [] name = "tick" /\ h.sinceCon >= 0 -> h.sinceCon + 1
          [] OTHER -> h.sinceCon,
      inOrder |->
        CASE name = "connect" -> 0
          [] name = "recv" /\ IsData(f) ->
               IF h.inOrder >= 0 /\ f.NS = 2 * h.inOrder
                 THEN h.inOrder + 1 ELSE -1
          [] lost -> -1
          [] OTHER -> h.inOrder,
      accepted |->
        CASE name = "connect" -> FALSE
          [] data -> TRUE
          [] OTHER -> h.accepted,
      base |-> IF name = "connect" THEN 0 ELSE h.base,
      iSent |-> IF name = "connect" THEN 0 ELSE h.iSent + nI,
      giArm |->
        CASE gi100 -> [p |-> pre.gi_period, n |-> 0, c |-> 0]
          [] name = "tick" /\ h.giArm.p >= 0 /\ h.giArm.n < h.giArm.p ->
               [h.giArm EXCEPT !.n = @ + 1,
                               !.c = @ + Len(GIFrames(post.out))]
          [] OTHER -> NoArm,
      giM |->
        CASE data /\ f.type = INTERROGATION /\ f.cause = ACTCONFIRM -> 0
          [] data /\ f.type \in MonitoringTypes /\ h.giM >= 0
               /\ f.cause \in INROGEN..INRO16 -> h.giM + f.num
          [] OTHER -> h.giM,
      giSkip |->
        CASE data /\ f.type = INTERROGATION /\ f.cause = ACTCONFIRM -> FALSE
          [] data /\ f.type \in MonitoringTypes /\ h.giM >= 0
               /\ f.cause \notin INROGEN..INRO16 -> TRUE
          [] OTHER -> h.giSkip,
      closed |->
        CASE name = "connect" -> FALSE
          [] lost -> TRUE
          [] OTHER -> h.closed,
      actAge |->
        CASE StartDTActs(post.out) # <<>> -> 0
          [] lost \/ (name = "recv" /\ f.sz = 6 /\ f.NS = STARTDTCON) -> -1
          [] name = "tick" /\ h.actAge >= 0 /\ h.actAge <= t1_startdtact ->
               h.actAge + 1
          [] OTHER -> h.actAge,
      lastNS |->
        CASE name = "connect" -> -1
          [] data -> f.NS \div 2
          [] OTHER -> h.lastNS,
      t2 |->
        CASE data -> [n |-> post.tout_supervisory, k |-> 0]
          [] name = "connect" \/ lost -> NoT2
          [] name = "tick" /\ pre.tout_supervisory > 0 ->
               [h.t2 EXCEPT !.k = @ + 1]
          [] pre.tout_supervisory < 0 -> NoT2
          [] OTHER -> h.t2,
      tries |->
        IF post.cnt # pre.cnt
          THEN <<[to |-> post.pending, backup |-> pre.backupIP,
                  count |-> post.cnt]>>
                 \o (IF h.tries = <<>> THEN <<>> ELSE <<h.tries[1]>>)
          ELSE h.tries,
      part |->
        CASE name = "connect" \/ lost -> NoPart
          [] name = "readyRead" ->
               IF /\ ~pre.broken_msg
                  /\ wire.left = wire.garbage \o wire.valid
                  /\ NoStartIn(wire.garbage)
                  /\ Len(pre.rx) - Len(wire.garbage)
                       \in 2..(Len(wire.valid) - 1)
                 THEN [n |-> Len(pre.rx) - Len(wire.garbage), done |-> FALSE]
               ELSE IF h.part.n >= 2 /\ ~h.part.done /\ pre.rx = wire.left
                 THEN [h.part EXCEPT !.done = TRUE]
               ELSE NoPart
          [] OTHER -> h.part,
      run |->
        CASE name = "connect" \/ lost \/ SFrames(post.out) # <<>> -> 0
          [] name = "tick" /\ pre.tout_supervisory > 0 -> -1
          [] data /\ h.run >= 0 -> h.run + 1
          [] OTHER -> h.run,
      tests |->
        CASE name = "connect" -> 0
          [] lost -> -1
          [] /\ name = "sendCommand" /\ h.tests >= 0 /\ post.out # <<>>
             /\ post.out[1].type = C_TS_TA_1 -> U16(h.tests + 1)
          [] OTHER -> h.tests]

\* nothing written by the peer in this session
NoWire == [garbage |-> <<>>, valid |-> <<>>, left |-> <<>>, fed |-> FALSE]

\* a new connection starts with nothing under way; a closed socket loses what
\* was under way
NextWire(name, post, left) ==
  CASE name = "connect" -> NoWire
    [] ~post.sock -> [wire EXCEPT !.left = <<>>]
    [] OTHER -> [wire EXCEPT !.left = left]

\* one callback: the engine's new state, what it sent, and the observers
Step(name, f, arg, flag, post) ==
  /\ InBounds(post)
  /\ Commit(post)
  /\ op' = Op(name, f, arg, flag)
  /\ hist' = NextHist(name, f, Eng, post)
  /\ wire' = NextWire(name, post, wire.left)

Init ==
  /\ connectedTCP = FALSE
  /\ TxOk = FALSE
  /\ VS = 0
  /\ VR = 0
  /\ test_command_count \in 0..MaxSends   \* the constructor leaves it unset
  /\ tout_startdtact = -1
  /\ tout_supervisory = -1
  /\ tout_testfr = -1
  /\ tout_gi = -1
  /\ GIObjectCnt = 0
  /\ gi_period = DefaultGIPeriod
  /\ seq_order_check = TRUE
  /\ sock = FALSE
  /\ mEnding = FALSE
  /\ broken_msg = FALSE
  /\ wire = NoWire
  /\ handed = <<>>
  /\ tcpCalls = 0
  /\ slaveAddress = 0
  /\ mAllowConnect = TRUE
  /\ cnts = 1
  /\ cnt = 0
  /\ backupIP = FALSE         \* no backup address is configured
  /\ pending = "none"
  /\ cmdObj = [given |-> PlainObj, left |-> PlainObj]
  /\ out = <<>>
  /\ up = <<>>
  /\ op = Op("init", NoFrame, 0, FALSE)
  /\ hist = [sinceCon |-> -1, inOrder |-> -1, accepted |-> FALSE, base |-> 0,
             iSent |-> 0, giArm |-> NoArm, giM |-> -1,
             giSkip |-> FALSE, closed |-> FALSE, actAge |-> -1,
             lastNS |-> -1, t2 |-> NoT2, tries |-> <<>>,
             part |-> NoPart, run |-> 0, tests |-> -1]

\* the socket's connected() signal
slot_tcpconnect ==
  /\ ~sock /\ ~mEnding
  /\ Step("connect", NoFrame, 0, FALSE,
          onConnectTCP([Eng EXCEPT !.sock = TRUE, !.pending = "none"]))

\* the socket's disconnected() signal: the peer or the network closed it
slot_tcpdisconnect ==
  /\ sock
  /\ Step("disconnect", NoFrame, 0, FALSE,
          onDisconnectTCP([Eng EXCEPT !.sock = FALSE]))

\* ticks in a row, this one included, that found TxOk set, counted up to t3
IdleTicks ==
  CASE ~TxOk -> 0
    [] op.name = "tick" /\ op.arg < t3_testfr -> op.arg + 1
    [] OTHER -> 1

\* iec104_class::onTimerSecond as slot_keep_alive calls it once a second; the
\* scenarios of the engine leave the reconnection to slot_tcpconnect
TimerSecond ==
  /\ ~mEnding
  /\ \E post \in {onTimerSecond(Eng)} :
       Step("tick", NoFrame, IdleTicks, FALSE, post)

\* the one-second timer; arg is IdleTicks, flag records a connect attempt
slot_keep_alive ==
  /\ ~mEnding
  /\ LET post == keepAlive(Eng)
     IN Step("tick", NoFrame, IdleTicks, post.cnt # cnt, post)

HostDisableConnect ==
  Step("disable_connect", NoFrame, 0, FALSE, disable_connect(Eng))

HostEnableConnect ==
  Step("enable_connect", NoFrame, 0, FALSE, enable_connect(Eng))

HostSetSecondaryIP_backup ==
  \E given \in BOOLEAN :
    Step("setSecondaryIP_backup", NoFrame, 0, given,
         setSecondaryIP_backup(Eng, given))

\* readyRead: packetReadyTCP hands one APDU of Frames to parseAPDU; arg is the
\* VR expected, flag records whether the frame's send number differs from it
Receive(Frames) ==
  /\ sock /\ ~mEnding
  /\ \E f \in Frames :
       Step("recv", f, VR, IsData(f) /\ ClearBit0(f.NS) # VR,
            parseAPDU(Eng, f, TRUE))

\* the peer writes garbage and then one valid APDU
PeerSends ==
  /\ sock /\ ~mEnding /\ ~wire.fed
  /\ \E g \in Garbage, v \in ValidAPDUs :
       wire' = [garbage |-> g, valid |-> v, left |-> g \o v, fed |-> TRUE]
  /\ UNCHANGED <<connectedTCP, TxOk, VS, VR, test_command_count,
                 tout_startdtact, tout_supervisory, tout_testfr, tout_gi,
                 GIObjectCnt, gi_period, seq_order_check, sock, mEnding,
                 broken_msg, handed, tcpCalls, slaveAddress, cmdObj,
                 mAllowConnect, cnts, cnt, backupIP, pending, out, up, op,
                 hist>>

\* readyRead at byte level: k more bytes are readable and packetReadyTCP
\* runs; arg is k, flag records that the whole stream is readable and no
\* frame of an earlier call is pending
slot_tcpreadytoread ==
  /\ sock /\ ~mEnding /\ wire.left # <<>>
  /\ \E k \in 1..Len(wire.left), stale \in StaleHeaders :
       /\ ~broken_msg => stale = <<0, 0>>
       /\ LET post == packetReadyTCP([Eng EXCEPT !.rx = Take(wire.left, k)],
                                     stale)
          IN /\ InBounds(post)
             /\ Commit(post)
             /\ op' = Op("readyRead", NoFrame, k,
                         ~broken_msg /\ k = Len(wire.garbage \o wire.valid))
             /\ hist' = NextHist("readyRead", NoFrame,
                                 [Eng EXCEPT !.rx = Take(wire.left, k)], post)
             /\ wire' = NextWire("readyRead", post, Drop(wire.left, k))

\* host: send_command with an object of Objs; flag is the value returned
HostSendCommandObj(Types, Objs) ==
  \E type \in Types, junk \in JunkBytes, o \in Objs :
    /\ type # C_RP_NA_1 => junk = 0
    /\ Step("sendCommand", NoFrame, type, type \in SendCommandTypes,
            sendCommand([Eng EXCEPT !.given = o, !.obj = o], type, junk))

HostSendCommand(Types) == HostSendCommandObj(Types, {PlainObj})

HostSetSecondaryAddress ==
  \E addr \in SlaveAddresses :
    Step("setSecondaryAddress", NoFrame, addr, FALSE,
         setSecondaryAddress(Eng, addr))

HostSolicitGI == Step("solicitGI", NoFrame, 0, FALSE, solicitGI(Eng))

HostSolicitInterrogation ==
  \E g \in Groups :
    Step("solicitInterrogation", NoFrame, g, FALSE, solicitInterrogation(Eng, g))

HostSetGIPeriod ==
  \E p \in 0..MaxGIPeriod :
    Step("setGIPeriod", NoFrame, p, FALSE, setGIPeriod(Eng, p))

HostDisableSequenceOrderCheck ==
  /\ seq_order_check
  /\ Step("disableSequenceOrderCheck", NoFrame, 0, FALSE,
          disableSequenceOrderCheck(Eng))

HostTerminate ==
  /\ ~mEnding
  /\ Step("terminate", NoFrame, 0, FALSE, terminate(Eng))

\* host: parseAPDU called on an APDU of Frames to have it decoded and
\* logged only, accountandrespond = false; arg is VR at the call
HostParseAPDU(Frames) ==
  \E f \in Frames :
    Step("parseAPDU", f, VR, FALSE, parseAPDU(Eng, f, FALSE))

\* the host sets the GI period before it lets the engine connect
ConfiguredConnect == gi_period <= MaxGIPeriod /\ slot_tcpconnect

\* the peer sends while the receive window of the model lasts
InWindow == VR <= 2 * MaxRecvSeq

(***************************************************************************)
(* Spec: the link scenario.  Any send number may arrive, the host sends    *)
(* commands and interrogations, and may switch the sequence check off.     *)
(***************************************************************************)
Next ==
  \/ slot_tcpconnect
  \/ slot_tcpdisconnect
  \/ TimerSecond
  \/ Receive(LinkFrames)
  \/ HostSendCommand(LinkCommands)
  \/ HostSolicitGI
  \/ HostSolicitInterrogation
  \/ HostDisableSequenceOrderCheck
  \/ HostTerminate

Spec == Init /\ [][Next]_vars

(***************************************************************************)
(* SpecWrap: one session of the link scenario that has already sent 32766  *)
(* I-frames (solicitGI called that often after STARTDTCON, no tick in      *)
(* between), so that VS is about to wrap.                                  *)
(***************************************************************************)
InitWrap ==
  /\ connectedTCP = TRUE
  /\ TxOk = TRUE
  /\ VS = SeqWidth - 4
  /\ VR = 0
  /\ test_command_count = 0
  /\ tout_startdtact = -1
  /\ tout_supervisory = -1
  /\ tout_testfr = -1
  /\ tout_gi = gi_retry_time
  /\ GIObjectCnt = 0
  /\ gi_period = DefaultGIPeriod
  /\ seq_order_check = TRUE
  /\ sock = TRUE
  /\ mEnding = FALSE
  /\ broken_msg = FALSE
  /\ wire = NoWire
  /\ handed = <<>>
  /\ tcpCalls = 0
  /\ slaveAddress = 0
  /\ mAllowConnect = TRUE
  /\ cnts = 1
  /\ cnt = 0
  /\ backupIP = FALSE         \* no backup address is configured
  /\ pending = "none"
  /\ cmdObj = [given |-> PlainObj, left |-> PlainObj]
  /\ out = <<>>
  /\ up = <<>>
  /\ op = Op("init", NoFrame, 0, FALSE)
  /\ hist = [sinceCon |-> -1, inOrder |-> 0, accepted |-> FALSE,
             base |-> SeqWidth - 4, iSent |-> 0, giArm |-> NoArm, giM |-> -1,
             giSkip |-> FALSE, closed |-> FALSE, actAge |-> -1,
             lastNS |-> -1, t2 |-> NoT2, tries |-> <<>>,
             part |-> NoPart, run |-> 0, tests |-> -1]

NextWrap ==
  \/ TimerSecond
  \/ (InWindow /\ Receive(WrapFrames))
  \/ HostSendCommand(LinkCommands)
  \/ HostSolicitGI
  \/ HostSolicitInterrogation
  \/ HostDisableSequenceOrderCheck

SpecWrap == InitWrap /\ [][NextWrap]_vars

(***************************************************************************)
(* SpecBytes: the receive path at byte level.  In each session the peer    *)
(* writes one stream, which arrives in one or more pieces; the host asks   *)
(* for interrogations.                                                     *)
(***************************************************************************)
NextBytes ==
  \/ slot_tcpconnect
  \/ slot_tcpdisconnect
  \/ PeerSends
  \/ slot_tcpreadytoread
  \/ HostSolicitGI

SpecBytes == Init /\ [][NextBytes]_vars

(***************************************************************************)
(* SpecCmd: the host's commands.  The host sets the slave's address and    *)
(* sends commands of supported and unsupported types with objects of its   *)
(* own, before and after STARTDTCON, with t1 or tGI armed.                 *)
(***************************************************************************)
NextCmd ==
  \/ slot_tcpconnect
  \/ slot_tcpdisconnect
  \/ Receive({CtlFrame(STARTDTCON)})
  \/ HostSetSecondaryAddress
  \/ HostSendCommandObj(CmdTypes, CmdObjs)

SpecCmd == Init /\ [][NextCmd]_vars

(***************************************************************************)
(* SpecGI: the timer scenario.  The peer keeps the sequence; the host sets *)
(* the GI period and asks for interrogations.                              *)
(***************************************************************************)
NextGI ==
  \/ ConfiguredConnect
  \/ slot_tcpdisconnect
  \/ TimerSecond
  \/ (InWindow /\ Receive(TimerFrames))
  \/ HostSetGIPeriod
  \/ HostSolicitGI

SpecGI == Init /\ [][NextGI]_vars

(***************************************************************************)
(* SpecAcct: the accounting scenario.  The peer keeps the sequence and     *)
(* sends interrogation responses mixed with other data; the host asks for  *)
(* interrogations.  No timer runs: onTimerSecond never reads or writes     *)
(* GIObjectCnt.                                                            *)
(***************************************************************************)
NextAcct ==
  \/ slot_tcpconnect
  \/ slot_tcpdisconnect
  \/ (InWindow /\ Receive(AcctFrames))
  \/ HostSolicitGI

SpecAcct == Init /\ [][NextAcct]_vars

\* Start of data transfer: connections come and go, the peer sends control
\* frames only, and the one-second timer keeps firing.
StartFrames == {CtlFrame(STARTDTCON), CtlFrame(TESTFRACT), CtlFrame(STARTDTACT)}

NextStart ==
  \/ slot_tcpconnect
  \/ slot_tcpdisconnect
  \/ TimerSecond
  \/ Receive(StartFrames)

SpecStart == Init /\ [][NextStart]_vars /\ WF_vars(TimerSecond)

\* The interrogation cycle: the host sets the period and lets the engine
\* connect, the peer confirms the start once and answers interrogations,
\* and the one-second timer keeps firing.
LiveFrames ==
  (IF TxOk THEN {} ELSE {CtlFrame(STARTDTCON)})
    \cup {DataFrame(VR, <<INTERROGATION, c, 1>>) : c \in {ACTCONFIRM, ACTTERM}}

NextLive ==
  \/ ConfiguredConnect
  \/ TimerSecond
  \/ (InWindow /\ Receive(LiveFrames))
  \/ (~sock /\ HostSetGIPeriod)

SpecLive == Init /\ [][NextLive]_vars /\ WF_vars(TimerSecond)

(***************************************************************************)
(* SpecTest: test commands.  The scenario begins in a session that has     *)
(* sent 65534 test commands with time tag and nothing else, so that the    *)
(* test sequence counter is about to wrap (and VS, at 2 * 65534 modulo     *)
(* 2^16, with it); sessions that begin at 0 follow.  The host sends        *)
(* commands and interrogations, the peer sends test commands and           *)
(* confirmations, the one-second timer runs.                               *)
(***************************************************************************)
InitTest ==
  /\ connectedTCP = TRUE
  /\ TxOk = TRUE
  /\ VS = SeqWidth - 4
  /\ VR = 0
  /\ test_command_count = StoredWidth - 2
  /\ tout_startdtact = -1
  /\ tout_supervisory = -1
  /\ tout_testfr = -1
  /\ tout_gi = GIStartDelay
  /\ GIObjectCnt = 0
  /\ gi_period = DefaultGIPeriod
  /\ seq_order_check = TRUE
  /\ sock = TRUE
  /\ mEnding = FALSE
  /\ broken_msg = FALSE
  /\ wire = NoWire
  /\ handed = <<>>
  /\ tcpCalls = 0
  /\ slaveAddress = 0
  /\ mAllowConnect = TRUE
  /\ cnts = 1
  /\ cnt = 0
  /\ backupIP = FALSE
  /\ pending = "none"
  /\ cmdObj = [given |-> PlainObj, left |-> PlainObj]
  /\ out = <<>>
  /\ up = <<>>
  /\ op = Op("init", NoFrame, 0, FALSE)
  /\ hist = [sinceCon |-> -1, inOrder |-> 0, accepted |-> FALSE,
             base |-> SeqWidth - 4, iSent |-> 0, giArm |-> NoArm, giM |-> -1,
             giSkip |-> FALSE, closed |-> FALSE, actAge |-> -1,
             lastNS |-> -1, t2 |-> NoT2, tries |-> <<>>,
             part |-> NoPart, run |-> 0, tests |-> StoredWidth - 2]

TestFrames ==
  {CtlFrame(STARTDTCON)}
    \cup {DataFrame(VR, <<C_TS_TA_1, c, 1>>) : c \in {ACTIVATION, ACTCONFIRM}}

TestCommands == {45, C_RP_NA_1, C_TS_TA_1}

NextTest ==
  \/ slot_tcpconnect
  \/ slot_tcpdisconnect
  \/ TimerSecond
  \/ (InWindow /\ Receive(TestFrames))
  \/ HostSendCommand(TestCommands)
  \/ HostSolicitGI
  \/ HostSolicitInterrogation

SpecTest == InitTest /\ [][NextTest]_vars

\* Acknowledgement: the peer sends I-frames in sequence (a single point, a
\* command response, a test command, which the engine confirms), connections
\* come and go, and the one-second timer keeps firing.
AckFrames ==
  {DataFrame(VR, a) : a \in {<<1, 3, 1>>, <<45, 7, 1>>, <<C_TS_TA_1, 6, 1>>}}

NextAck ==
  \/ slot_tcpconnect
  \/ slot_tcpdisconnect
  \/ TimerSecond
  \/ (InWindow /\ Receive(AckFrames))

SpecAck == Init /\ [][NextAck]_vars /\ WF_vars(TimerSecond)

\* Display: besides the frames the socket delivers, the host hands APDUs
\* to parseAPDU for decoding only; these carry any send number.
ShowData ==
  {<<1, 3, 1>>, <<1, 20, 1>>, <<45, 7, 1>>, <<INTERROGATION, 7, 1>>,
   <<INTERROGATION, 10, 1>>, <<C_TS_TA_1, 6, 1>>, <<C_TS_TA_1, 7, 1>>}

ShowControl == {STARTDTACT, STARTDTCON, TESTFRACT, TESTFRCON, SUPERVISORY}

ShowFrames ==
  {CtlFrame(c) : c \in ShowControl}
    \cup {DataFrame(ns, a) : ns \in {VR, VR + 4}, a \in ShowData}

NextShow ==
  \/ slot_tcpconnect
  \/ slot_tcpdisconnect
  \/ (InWindow /\ Receive({CtlFrame(STARTDTCON), DataFrame(VR, <<1, 20, 1>>)}))
  \/ HostParseAPDU(ShowFrames)

SpecShow == Init /\ [][NextShow]_vars

\* the socket reports the connection an attempt asked for
ConnectionEstablished == pending # "none" /\ slot_tcpconnect

\* Reconnection: the keep-alive timer makes the attempts, the host allows
\* and forbids them and names a backup address, connections come and go.
NextConn ==
  \/ slot_keep_alive
  \/ ConnectionEstablished
  \/ slot_tcpdisconnect
  \/ HostDisableConnect
  \/ HostEnableConnect
  \/ HostSetSecondaryIP_backup
  \/ HostTerminate

SpecConn == Init /\ [][NextConn]_vars

\* Sessions: the reconnection scenario with a peer that confirms the start
\* of data transfer and sends an I-frame out of sequence.
SessFrames == {CtlFrame(STARTDTCON), DataFrame(VR + 4, <<1, 3, 1>>)}

NextSess ==
  \/ slot_keep_alive
  \/ ConnectionEstablished
  \/ slot_tcpdisconnect
  \/ Receive(SessFrames)
  \/ HostDisableConnect
  \/ HostEnableConnect
  \/ HostTerminate

SpecSess == Init /\ [][NextSess]_vars

(***************************************************************************)
(* The claims.  out and up hold what the last callback sent and called; op *)
(* names that callback and its input; hist is the history defined above.   *)
(***************************************************************************)
\* C1: after onConnectTCP the engine has VS = 0, VR = 0, test-sequence
\* counter 0 and TxOk false, has sent exactly one frame, the STARTDT-act
\* U-frame 68 04 07 00 00 00, and t1 is armed, whatever the state before.
C1_ConnectResets ==
  op.name = "connect" =>
    /\ VS = 0 /\ VR = 0 /\ test_command_count = 0 /\ ~TxOk
    /\ out = <<UFrame(STARTDTACT, 0)>>
    /\ out[1].length = 4 /\ out[1].NS = 7 /\ out[1].NR = 0
    /\ tout_startdtact = t1_startdtact /\ tout_startdtact > 0

\* C1 witness: a reconnect after a session that had accepted data (t3 still
\* runs, so VR was not 0 when the connect event came)
C1_Witness ==
  /\ op.name = "connect" /\ tout_testfr > 0
  /\ VS = 0 /\ VR = 0 /\ Len(out) = 1

C3_InOrderAccepted ==
  (seq_order_check /\ hist.inOrder >= 1) =>
    (sock /\ connectedTCP /\ VR = 2 * hist.inOrder)

\* C3 witness: the whole window 0..MaxRecvSeq was fed in order
C3_Witness ==
  /\ seq_order_check /\ hist.inOrder = MaxRecvSeq + 1
  /\ sock /\ VR = 2 * (MaxRecvSeq + 1)

\* an I-frame with send number 1 arriving as the first I-frame of the session:
\* the tolerance the comment at the sequence check names
InitialTolerance(f) == ~hist.accepted /\ ClearBit0(f.NS) = 2

\* what C4 says of a discarded frame: the connection is closed, no upcall, VR
\* not advanced, nothing sent, t3 not armed, t2 not armed
ClosedAndDiscarded ==
  /\ ~sock' /\ ~connectedTCP'
  /\ up' = <<>> /\ out' = <<>>
  /\ VR' = VR
  /\ tout_testfr' = tout_testfr
  /\ tout_supervisory' = -1

\* C4: with the sequence check enabled, an I-frame whose send number differs
\* from the expected VR (other than the tolerated 1 on the first I-frame of
\* the session) makes the engine close the TCP connection and discards the
\* frame: no upcall, VR not advanced, no S-frame, no t2 or t3 arming.
C4_MismatchCloses ==
  [][(op'.name = "recv" /\ op'.flag /\ seq_order_check
        /\ ~InitialTolerance(op'.f))
       => ClosedAndDiscarded]_vars

\* C4, send numbers other than 1: the part of C4 the code keeps
C4_MismatchNotOneCloses ==
  [][(op'.name = "recv" /\ op'.flag /\ seq_order_check
        /\ ClearBit0(op'.f.NS) # 2)
       => ClosedAndDiscarded]_vars

\* C4, send numbers other than 1, reached: with VR = 2 (stored 4) a frame
\* with send number 3 closed the connection
C4_MismatchNotOneReached ==
  /\ op.name = "recv" /\ op.flag /\ seq_order_check
  /\ op.arg = 4 /\ op.f.NS = 6 /\ ~sock /\ VR = 4 /\ up = <<>>

\* C4 failing input reached: with VR = 2 (stored 4) a frame with send number
\* 1 was dispatched and the connection stayed open
C4_Witness ==
  /\ op.name = "recv" /\ op.flag /\ seq_order_check
  /\ op.arg = 4 /\ op.f.NS = 2 /\ sock /\ VR = 4 /\ Len(up) = 1

\* C5: the tolerance for send number 1 applies only to the first I-frame
\* after connect: with the sequence check enabled, once an I-frame has been
\* accepted in the session, an I-frame with send number 1 that is not the
\* expected one closes the connection and never moves VR backwards.
C5_ToleranceOnlyFirst ==
  [][(op'.name = "recv" /\ op'.flag /\ seq_order_check
        /\ hist.accepted /\ ClearBit0(op'.f.NS) = 2)
       => (~sock' /\ VR' = VR)]_vars

\* C5 reached: with VR = 3 (stored 6) a frame with send number 1 was taken
\* and VR went back to 2 (stored 4)
C5_Witness ==
  /\ op.name = "recv" /\ op.flag /\ seq_order_check
  /\ op.arg = 6 /\ op.f.NS = 2 /\ sock /\ VR = 4 /\ Len(up) = 1

\* C6: after disableSequenceOrderCheck an I-frame whose send number differs
\* from VR never disconnects: it is dispatched (upcall or test confirmation,
\* t3 armed) and VR becomes (NS & 0xFFFE) + 2.
C6_CheckDisabledAccepts ==
  (op.name = "recv" /\ op.flag /\ ~seq_order_check) =>
    /\ sock /\ connectedTCP
    /\ VR = (op.f.NS - (op.f.NS % 2) + 2) % 65536
    /\ tout_testfr = t3_testfr
    /\ op.f.type = 1 => (Len(up) = 1 /\ up[1].name = "dataIndication")
    /\ (op.f.type = 107 /\ op.f.cause = 6) =>
         (Len(IFrames(out)) = 1 /\ IFrames(out)[1].type = 107
            /\ IFrames(out)[1].cause = 7)

\* C6 witness: a frame far from VR was dispatched with the check disabled
C6_Witness ==
  /\ op.name = "recv" /\ op.flag /\ ~seq_order_check
  /\ ClearBit0(op.f.NS) # 2 /\ sock /\ Len(up) = 1

\* C7: every I-frame the engine writes in a session (commands, GI requests,
\* test-command confirmation) carries the next consecutive send number,
\* modulo 2^15 (2^16 stored), and a sendCommand of a supported type writes
\* exactly one: N calls from VS = v give v, v+1, .., v+N-1 in call order.
C7_ConsecutiveSendNumbers ==
  LET fs == IFrames(out)
      before == hist.iSent - Len(fs)
  IN /\ \A j \in 1..Len(fs) :
          fs[j].NS = (hist.base + 2 * (before + j - 1)) % 65536
     /\ (op.name = "sendCommand" /\ op.flag /\ sock) =>
          (Len(out) = 1 /\ Len(fs) = 1)
     /\ (op.name \in {"solicitGI", "solicitInterrogation"} /\ sock) =>
          (Len(out) = 1 /\ Len(fs) = 1)

\* C7 witness: a command sent after the wrap carries send number 1, the
\* fourth of the numbers 32766, 32767, 0, 1
C7_Witness ==
  /\ op.name = "sendCommand" /\ op.flag /\ sock
  /\ hist.base = SeqWidth - 4 /\ hist.iSent = 4
  /\ Len(out) = 1 /\ out[1].NS = 2

\* C8: the stored VS and VR always have bit 0 clear; each I-frame written
\* advances VS by exactly 2 and each accepted I-frame sets VR to the received
\* number plus 2, both modulo 2^16.
C8_ShiftedCounters ==
  /\ [](VS % 2 = 0 /\ VR % 2 = 0 /\ VS \in 0..65535 /\ VR \in 0..65535)
  /\ [][IFrames(out') # <<>> =>
          VS' = (VS + 2 * Len(IFrames(out'))) % 65536]_vars
  /\ [][(op'.name = "recv" /\ op'.f.sz # 6 /\ sock') =>
          VR' = ((op'.f.NS - (op'.f.NS % 2)) + 2) % 65536]_vars

\* C8 witness: VS has wrapped, and the last received number before the wrap
\* of VR was accepted
C8_Witness ==
  /\ op.name = "recv" /\ op.f.NS = SeqWidth - 2 /\ sock /\ VR = 0
  /\ hist.iSent >= 2 /\ VS = 0

\* C9: if tGI is armed with gi_period on a connected session and the tick
\* then runs exactly gi_period times with nothing in between, exactly one
\* general interrogation (type 100, cause 6, qualifier 0x14) is written, on the
\* last of those ticks, for every gi_period the host can set.
C9_OneGIPerPeriod ==
  (hist.giArm.p >= 0 /\ hist.giArm.n = hist.giArm.p) =>
    (hist.giArm.c = 1 /\ op.name = "tick" /\ Len(GIFrames(out)) = 1)

\* C9 amended: the same for every gi_period of at least 1, and no general
\* interrogation is written before the last of those ticks.
C9_OneGIPerPositivePeriod ==
  hist.giArm.p >= 1 =>
    /\ hist.giArm.n < hist.giArm.p => hist.giArm.c = 0
    /\ hist.giArm.n = hist.giArm.p =>
         (hist.giArm.c = 1 /\ op.name = "tick" /\ Len(GIFrames(out)) = 1)

\* C9 witness: the longest configured period has run out
C9_Witness ==
  /\ hist.giArm.p = MaxGIPeriod /\ hist.giArm.n = MaxGIPeriod
  /\ hist.giArm.c = 1 /\ Len(GIFrames(out)) = 1

ActTerms(calls) ==
  SelectSeq(calls, LAMBDA u : u.name = "interrogationActTermIndication")

\* C10: after an interrogation ACT-CON, monitoring ASDUs with cause in
\* [20,36] totalling M objects, and an ACT-TERM, interrogationActTermIndication
\* is called with GIObjectCnt = M; monitoring ASDUs of another cause received
\* in between do not change the count.
C10_GIAccounting ==
  hist.giM >= 0 =>
    /\ GIObjectCnt = hist.giM
    /\ \A j \in 1..Len(ActTerms(up)) : ActTerms(up)[j].cnt = hist.giM
    /\ (op.name = "recv" /\ op.f.sz # 6 /\ op.f.type = 100 /\ op.f.cause = 10
          /\ sock) => Len(ActTerms(up)) = 1

\* C10 witness: ACT-TERM reports MaxGIObjects objects although an ASDU of
\* another cause came in between
C10_Witness ==
  /\ op.name = "recv" /\ op.f.type = 100 /\ op.f.cause = 10
  /\ hist.giM = MaxGIObjects /\ hist.giSkip
  /\ Len(ActTerms(up)) = 1 /\ up[1].cnt = MaxGIObjects
(***************************************************************************)
(* C11: when a stream of garbage followed by one valid APDU is readable as *)
(* a whole by a packetReadyTCP that has no frame pending, and the garbage  *)
(* holds no START byte, exactly one APDU is handed to parseAPDU and it is  *)
(* the valid one, byte for byte.                                           *)
(***************************************************************************)
WholeStreamRead == op.name = "readyRead" /\ op.flag

C11_GarbageFramed ==
  /\ WholeStreamRead
  /\ wire.garbage = <<START, 4>>
  /\ handed # <<wire.valid>>

(***************************************************************************)
(* C12: after onDisconnectTCP the engine is disconnected, TxOk is false    *)
(* and t1, t2, t3 and tGI are all idle (below 0).                          *)
(***************************************************************************)
C12_DisconnectIdlesTimers ==
  op.name = "disconnect" =>
    /\ ~connectedTCP /\ ~TxOk
    /\ tout_startdtact < 0 /\ tout_supervisory < 0
    /\ tout_testfr < 0 /\ tout_gi < 0

\* t3, armed by a data message of the session, is still armed after it
C12_Witness ==
  /\ op.name = "disconnect"
  /\ ~connectedTCP /\ ~TxOk
  /\ tout_startdtact < 0 /\ tout_supervisory < 0 /\ tout_gi < 0
  /\ tout_testfr = t3_testfr

(***************************************************************************)
(* C13: after onDisconnectTCP VS and VR are 0 and the broken-message flag  *)
(* is clear, so that the next session's first packetReadyTCP scans for a   *)
(* START byte.                                                             *)
(***************************************************************************)
C13_DisconnectResets ==
  op.name = "disconnect" => (VS = 0 /\ VR = 0 /\ ~broken_msg)

\* a disconnect that leaves the send number and the flag of the session
C13_Witness ==
  /\ op.name = "disconnect" /\ ~connectedTCP
  /\ VS # 0 /\ broken_msg

\* the next session's first packetReadyTCP, the whole stream readable,
\* resumes the frame of the session before and loses the valid APDU
C13_ResumedInNextSession ==
  /\ op.name = "readyRead" /\ ~op.flag
  /\ op.arg = Len(wire.garbage \o wire.valid)
  /\ wire.garbage = <<>>
  /\ handed # <<wire.valid>>

(***************************************************************************)
(* C14: while the engine is disconnected (after a disconnect, before the   *)
(* next connect) no operation of it calls sendTCP.                         *)
(***************************************************************************)
C14_NoTransportCallWhileDisconnected ==
  (hist.closed /\ op.name # "disconnect") => tcpCalls = 0

\* a general interrogation asked for after the disconnect calls sendTCP;
\* the closed socket drops the frame and VS counts it
C14_Witness ==
  /\ hist.closed /\ ~connectedTCP /\ ~sock
  /\ op.name = "solicitGI"
  /\ tcpCalls = 1 /\ out = <<>>
  /\ hist.iSent = 0 /\ VS = 2

(***************************************************************************)
(* C15: an I-frame is written only while TxOk is true; none is written     *)
(* after the connect and before STARTDTCON.                                *)
(***************************************************************************)
C15_IFramesOnlyWhenTxOk == IFrames(out) # <<>> => TxOk

\* a command of the host goes out on a connected session that has not seen
\* STARTDTCON
C15_Witness ==
  /\ op.name = "sendCommand" /\ op.flag
  /\ connectedTCP /\ ~TxOk /\ tout_startdtact > 0
  /\ Len(IFrames(out)) = 1

\* so does the confirmation of a test command received before STARTDTCON
C15_ConfirmationBeforeStartDT ==
  /\ op.name = "recv" /\ op.f.type = C_TS_TA_1
  /\ connectedTCP /\ ~TxOk
  /\ Len(IFrames(out)) = 1

(***************************************************************************)
(* C16: a TESTFRACT received is answered with exactly one TESTFRCON and a  *)
(* STARTDTACT with exactly one STARTDTCON, the only frame written while    *)
(* the frame is processed, before and after STARTDTCON alike; VS, VR, TxOk *)
(* and the four timers stay as they were.                                  *)
(***************************************************************************)
ActFrames == {CtlFrame(TESTFRACT), CtlFrame(STARTDTACT)}

ConOf(f) == IF f.NS = TESTFRACT THEN TESTFRCON ELSE STARTDTCON

C16_WitnessBeforeStartDT ==
  /\ op.name = "recv" /\ op.f = CtlFrame(TESTFRACT)
  /\ out = <<UFrame(TESTFRCON, 0)>>
  /\ ~TxOk /\ tout_startdtact > 0 /\ tout_startdtact < t1_startdtact

(***************************************************************************)
(* C17: when TxOk is true and t3 ticks pass in a row with no frame         *)
(* received, the last of them writes a TESTFRACT, also in a session that   *)
(* has received no I-frame since STARTDTCON.                               *)
(***************************************************************************)
TestFrActs == SelectSeq(out, LAMBDA f : f = UFrame(TESTFRACT, 0))

C17_TestFrAfterIdle ==
  (op.name = "tick" /\ op.arg = t3_testfr /\ connectedTCP) =>
    TestFrActs # <<>>

\* t3 ticks after STARTDTCON in a session without I-frames: t3 was never
\* armed and nothing is written
C17_Witness ==
  /\ op.name = "tick" /\ op.arg = t3_testfr
  /\ connectedTCP /\ TxOk /\ ~hist.accepted
  /\ tout_testfr = -1 /\ out = <<>>

(***************************************************************************)
(* C18: sendCommand with a type its switch does not handle returns false   *)
(* and changes nothing: no frame, VS, VR, the test sequence counter and    *)
(* the timers as before, the caller's object as it was given.              *)
(***************************************************************************)
C18_UnsupportedNoEffect ==
  [][(op'.name = "sendCommand" /\ op'.arg \notin SendCommandTypes) =>
        /\ ~op'.flag /\ out' = <<>> /\ tcpCalls' = 0
        /\ UNCHANGED <<VS, VR, test_command_count, tout_startdtact,
                       tout_supervisory, tout_testfr, tout_gi>>
        /\ cmdObj'.left = cmdObj'.given]_vars

\* what does hold: false is returned, nothing is sent, the engine's counters
\* and timers stay
C18_UnsupportedLeavesEngine ==
  [][(op'.name = "sendCommand" /\ op'.arg \notin SendCommandTypes) =>
        /\ ~op'.flag /\ out' = <<>> /\ tcpCalls' = 0
        /\ UNCHANGED <<VS, VR, test_command_count, tout_startdtact,
                       tout_supervisory, tout_testfr, tout_gi>>]_vars

\* the object given with cause DEACTIVATION and no common address comes
\* back with cause ACTIVATION and the slave's address
C18_Witness ==
  /\ op.name = "sendCommand" /\ op.arg \notin SendCommandTypes /\ ~op.flag
  /\ out = <<>> /\ tcpCalls = 0
  /\ cmdObj.given = [cause |-> DEACTIVATION, ca |-> 0]
  /\ cmdObj.left = [cause |-> ACTIVATION, ca |-> 2]

(***************************************************************************)
(* C19: solicitInterrogation(G), G in 1..16, writes a type-100 activation  *)
(* whose qualifier of interrogation is 20 + G; solicitGI writes one with   *)
(* qualifier 20.                                                           *)
(***************************************************************************)
IsInterrogationAct(f, qual) ==
  IsIFrame(f) /\ f.type = INTERROGATION /\ f.cause = ACTIVATION
    /\ f.qual = qual

C19_GroupQualifier ==
  /\ (op.name = "solicitInterrogation" /\ out # <<>>) =>
       (Len(out) = 1 /\ IsInterrogationAct(out[1], GIQualifier + op.arg))
  /\ (op.name = "solicitGI" /\ out # <<>>) =>
       (Len(out) = 1 /\ IsInterrogationAct(out[1], GIQualifier))

\* group 16 goes out with qualifier 16
C19_Witness ==
  /\ op.name = "solicitInterrogation" /\ op.arg = 16
  /\ Len(out) = 1 /\ IsInterrogationAct(out[1], 16)

\* what does hold: the qualifier written is the argument itself
C19_RawQualifier ==
  /\ (op.name = "solicitInterrogation" /\ out # <<>>) =>
       (Len(out) = 1 /\ IsInterrogationAct(out[1], op.arg))
  /\ (op.name = "solicitGI" /\ out # <<>>) =>
       (Len(out) = 1 /\ IsInterrogationAct(out[1], GIQualifier))

(***************************************************************************)
(* C20: an accepted I-frame with a test command of type 107 (C_TS_TA_1)    *)
(* and cause ACTIVATION is answered with exactly one I-frame of type 107   *)
(* and cause ACTCONFIRM that carries VS as it was and the new VR, and VS   *)
(* advances by one frame; with another cause no I-frame is written.        *)
(***************************************************************************)
Accepted(o, type) ==
  o.name = "recv" /\ IsData(o.f) /\ o.f.type = type

IsConfirmation(f, ns, nr) ==
  /\ f.type = C_TS_TA_1 /\ f.cause = ACTCONFIRM
  /\ f.NS = ns /\ f.NR = nr

C20_TestCommand107Confirmed ==
  [][(Accepted(op', C_TS_TA_1) /\ sock') =>
        IF op'.f.cause = ACTIVATION
          THEN /\ Len(IFrames(out')) = 1
               /\ IsConfirmation(IFrames(out')[1], VS, VR')
               /\ VS' = Stored(VS + 2)
          ELSE IFrames(out') = <<>> /\ VS' = VS]_vars

\* as stated, for a test command of type 104
C20_TestCommand104Confirmed ==
  [][(Accepted(op', C_TS_NA_1) /\ sock') =>
        IF op'.f.cause = ACTIVATION
          THEN /\ Len(IFrames(out')) = 1
               /\ IsConfirmation(IFrames(out')[1], VS, VR')
               /\ VS' = Stored(VS + 2)
          ELSE IFrames(out') = <<>> /\ VS' = VS]_vars

\* a confirmation sent on a session that has sent and received before
C20_Witness ==
  /\ Accepted(op, C_TS_TA_1) /\ sock /\ op.f.cause = ACTIVATION
  /\ Len(IFrames(out)) = 1
  /\ IsConfirmation(IFrames(out)[1], 2, 4)
  /\ VS = 4 /\ VR = 4

\* a type-104 activation is accepted and counted, and nothing answers it
C20_Type104Unanswered ==
  /\ Accepted(op, C_TS_NA_1) /\ sock /\ op.f.cause = ACTIVATION
  /\ VR = 2 /\ IFrames(out) = <<>>

(***************************************************************************)
(* C21: an accepted I-frame of a monitoring type, of a command response    *)
(* type, or of type 100 with cause ACTCONFIRM or ACTTERM makes exactly one *)
(* upcall, the one of its type; every other accepted I-frame makes none.   *)
(***************************************************************************)
AcceptedData == op.name = "recv" /\ IsData(op.f) /\ sock

UpcallFor(f) ==
  CASE f.type \in MonitoringTypes -> "dataIndication"
    [] f.type \in CommandRespTypes -> "commandActRespIndication"
    [] f.type = INTERROGATION /\ f.cause = ACTCONFIRM ->
         "interrogationActConfIndication"
    [] f.type = INTERROGATION /\ f.cause = ACTTERM ->
         "interrogationActTermIndication"
    [] OTHER -> "none"

C21_OneUpcallWhereHandled ==
  AcceptedData =>
    IF UpcallFor(op.f) = "none"
      THEN up = <<>>
      ELSE Len(up) = 1 /\ up[1].name = UpcallFor(op.f)

\* as stated, for every type identifier and cause
C21_OneUpcallAlways == AcceptedData => Len(up) = 1

\* a command response on a session that has received before
C21_Witness ==
  /\ AcceptedData /\ op.f.type = 45 /\ op.arg = 2
  /\ Len(up) = 1 /\ up[1].name = "commandActRespIndication"

\* a type-100 activation and a test command are accepted without upcall
C21_AcceptedWithoutUpcall ==
  /\ AcceptedData /\ op.f.type = INTERROGATION /\ op.f.cause = ACTIVATION
  /\ VR = op.arg + 2 /\ up = <<>>

(***************************************************************************)
(* C22: a monitoring frame whose size does not cover its num objects is    *)
(* discarded without dataIndication; one that covers them is passed on as  *)
(* num records, all read from bytes of the frame.                          *)
(***************************************************************************)
AcceptedMonitoring == AcceptedData /\ op.f.type \in MonitoringTypes

C22_NoPartialObjects ==
  AcceptedMonitoring =>
    IF Stale(op.f) > 0
      THEN up = <<>>
      ELSE /\ Len(up) = 1 /\ up[1].name = "dataIndication"
           /\ up[1].n = op.f.num /\ up[1].stale = 0

\* a frame that says two single points and holds one is passed on as two
\* records, the second read from behind the frame
C22_Witness ==
  /\ AcceptedMonitoring /\ op.f.type = 1 /\ op.f.num = 2
  /\ op.f.sz = HeaderSize + 4
  /\ Len(up) = 1 /\ up[1].name = "dataIndication"
  /\ up[1].n = 2 /\ up[1].stale = 1

\* what does hold: a frame that covers its objects is passed on whole
C22_CompleteFramesWhole ==
  (AcceptedMonitoring /\ Stale(op.f) = 0) =>
    /\ Len(up) = 1 /\ up[1].name = "dataIndication"
    /\ up[1].n = op.f.num /\ up[1].stale = 0

\* connectToHost was called: connectTCP counted an attempt
AttemptMade == cnt' # cnt

C24_BackupOnEvenCounts ==
  /\ \A i \in 1..Len(hist.tries) :
       LET t == hist.tries[i]
       IN /\ t.backup => (t.to = "backup" <=> t.count = 0)
          /\ ~t.backup => t.to = "primary"
  /\ Len(hist.tries) = 2 /\ hist.tries[1].backup /\ hist.tries[2].backup
       => hist.tries[1].to # hist.tries[2].to

\* C24 as stated: with a backup address configured the backup address is
\* the one selected on odd counts.
C24_BackupOnOddCounts ==
  \A i \in 1..Len(hist.tries) :
    LET t == hist.tries[i]
    IN t.backup => (t.to = "backup" <=> t.count = 1)

\* C24 witness: two attempts in a row with a backup address configured, the
\* later one to the backup address.
C24_Witness ==
  /\ op.name = "tick" /\ op.flag
  /\ Len(hist.tries) = 2
  /\ hist.tries[1].backup /\ hist.tries[2].backup
  /\ hist.tries[1].to = "backup" /\ hist.tries[2].to = "primary"

\* C25: whatever sends STARTDTACT arms t1 to its full value; while the
\* engine waits for STARTDTCON, a tick sends STARTDTACT exactly when it is
\* the t1-th tick since the last STARTDTACT, and no tick closes the
\* connection; as long as neither STARTDTCON arrives nor the connection is
\* lost, a retransmission by the timer happens again and again.
C25_RetransmitsEveryT1 ==
  /\ [][/\ StartDTActs(out') # <<>> => tout_startdtact' = t1_startdtact
        /\ op'.name = "tick" /\ hist.actAge >= 0 =>
             /\ sock' = sock /\ connectedTCP' = connectedTCP
             /\ Len(StartDTActs(out')) =
                  (IF hist.actAge = t1_startdtact - 1 THEN 1 ELSE 0)]_vars
  /\ []<>(hist.actAge = -1 \/ (op.name = "tick" /\ StartDTActs(out) # <<>>))

\* C25 witness: the timer has just retransmitted STARTDTACT a second time in
\* one session.
C25_Witness ==
  /\ op.name = "tick" /\ StartDTActs(out) # <<>>
  /\ hist.actAge = 0 /\ ~TxOk /\ connectedTCP
  /\ tout_startdtact = t1_startdtact

\* C26: an armed t2 loses two per tick: k ticks after an I-frame left it
\* at n it stands at n - 2k; the tick that ends it is tick ceil(n/2), sends
\* exactly one S-frame, which carries VR, and leaves t2 at -1; a tick sends
\* no S-frame otherwise, and t2 is armed only as an I-frame left it.
C26_T2TwicePerTick ==
  /\ tout_supervisory # 0
  /\ tout_supervisory > 0 =>
       /\ hist.t2.n > 0
       /\ tout_supervisory = hist.t2.n - 2 * hist.t2.k
  /\ op.name = "tick" =>
       IF hist.t2.n > 0 /\ tout_supervisory = -1
         THEN /\ hist.t2.k = (hist.t2.n + 1) \div 2
              /\ SFrames(out) = <<UFrame(SUPERVISORY, VR)>>
         ELSE SFrames(out) = <<>>

\* C26 witness: t2 stood at 3 after an I-frame and the second tick after
\* it sent the S-frame.
C26_Witness ==
  /\ op.name = "tick" /\ hist.t2.n = 3 /\ hist.t2.k = 2
  /\ tout_supervisory = -1
  /\ SFrames(out) = <<UFrame(SUPERVISORY, VR)>>

\* a received S-frame
IsSRecv(f) == f.start = START /\ f.sz = 6 /\ f.NS = SUPERVISORY

\* C27: a frame received while TxOk is true that is an I-frame or an S-frame
\* leaves t3 at its full value; a frame received while TxOk is false leaves
\* t3 as it was.
C27_T3ArmedWhileTxOk ==
  [][(op'.name = "recv" /\ sock') =>
       /\ (TxOk /\ (IsData(op'.f) \/ IsSRecv(op'.f))) =>
            tout_testfr' = t3_testfr
       /\ ~TxOk => tout_testfr' = tout_testfr]_vars

\* C27 witness: an S-frame arrived while TxOk was true and t3 was partly
\* run down, and t3 is still partly run down.
C27_Witness ==
  /\ op.name = "recv" /\ IsSRecv(op.f) /\ sock /\ TxOk
  /\ tout_testfr > 0 /\ tout_testfr < t3_testfr

\* the tick has just written a general interrogation
TickSentGI == op.name = "tick" /\ GIFrames(out) # <<>>

\* the last send number the model follows
LastVS == VS = 2 * MaxSends

C29_ReceiveNumberIsVR ==
  /\ \A i \in 1..Len(out) :
       (IsIFrame(out[i]) \/ IsSFrame(out[i])) => out[i].NR = VR
  /\ hist.lastNS >= 0 => VR = Stored(2 * (hist.lastNS + 1))

\* C29 witness: a test command with send number 2 was accepted and its
\* confirmation acknowledges it.
C29_Witness ==
  /\ op.name = "recv" /\ op.f.type = C_TS_TA_1 /\ hist.lastNS = 2
  /\ Len(IFrames(out)) = 1 /\ IFrames(out)[1].NR = 6 /\ VR = 6

\* C30: a received frame longer than 4 whose length is below 12, or whose
\* first control byte has bit 0 set, leaves VR as it was and causes no
\* upcall.
C30_RejectsShortAndFormatBits ==
  (op.name = "recv" /\ IsData(op.f)
     /\ (op.f.sz - 2 < 12 \/ op.f.NS % 2 = 1))
    => (VR = op.arg /\ up = <<>>)

\* C30 witness: a frame of length 6 was taken as an I-frame: VR moved on
\* and the host was handed an object.
C30_Witness ==
  /\ op.name = "recv" /\ op.f.sz = 8 /\ sock
  /\ VR = Stored(op.arg + 2)
  /\ Len(up) = 1 /\ up[1].name = "dataIndication"

(***************************************************************************)
(* C31: a packetReadyTCP that finds the START and length bytes of a valid  *)
(* APDU and not all of its body leaves the broken-message flag set, and    *)
(* the packetReadyTCP that finds the rest of the bytes hands parseAPDU     *)
(* exactly the APDU that was sent.                                         *)
(***************************************************************************)
C31_Reassembled ==
  /\ (hist.part.n >= 2 /\ ~hist.part.done) => broken_msg
  /\ hist.part.done => handed = <<wire.valid>>

\* the first call read the header and one byte of the body; the call that
\* resumed, with the length of the frame in the unwritten br[1], read the
\* three bytes that were left as the start of the body and waits again
C31_Witness ==
  /\ op.name = "readyRead" /\ hist.part.n = 3 /\ hist.part.done
  /\ wire.left = <<>> /\ handed = <<>> /\ broken_msg

\* the first call read the header only, the call that resumed found other
\* bytes than the header in br[0], br[1], and the frame is lost
C31_HeaderForgotten ==
  /\ op.name = "readyRead" /\ hist.part.n = 2 /\ hist.part.done
  /\ wire.left = <<>> /\ handed = <<>> /\ ~broken_msg

(***************************************************************************)
(* C32: a packetReadyTCP whose second read still leaves the frame short    *)
(* returns with the broken-message flag clear.                             *)
(***************************************************************************)
C32_ShortFrameDiscarded ==
  (op.name = "readyRead" /\ hist.part.n >= 3 /\ ~hist.part.done)
    => ~broken_msg

\* the header and part of the body were read and the flag is set
C32_Witness ==
  /\ op.name = "readyRead" /\ hist.part.n = 5 /\ ~hist.part.done
  /\ broken_msg /\ handed = <<>>

(***************************************************************************)
(* C33: the test sequence counter is 0 after every connect; in a session   *)
(* it equals the number of type-107 commands sendCommand has sent, modulo  *)
(* 2^16, whatever else was sent or received; and the frame of each such    *)
(* command carries the number of those sent before it.                     *)
(***************************************************************************)
C33_TestSequencePerSession ==
  /\ op.name = "connect" => test_command_count = 0
  /\ hist.tests >= 0 => test_command_count = hist.tests
  /\ (op.name = "sendCommand" /\ op.arg = C_TS_TA_1 /\ hist.tests >= 0) =>
       /\ Len(out) = 1 /\ out[1].type = C_TS_TA_1
       /\ out[1].tsc = U16(hist.tests + SeqWidth - 1)

\* the 65536th test command of a session carries 65535 and the counter is
\* back at 0, not by a connect
C33_Witness ==
  /\ op.name = "sendCommand" /\ op.arg = C_TS_TA_1
  /\ hist.tests = 0 /\ test_command_count = 0
  /\ out[1].tsc = SeqWidth - 1

\* the third test command of a session that began with a connect, behind
\* a test command received and confirmed
C33_WitnessThird ==
  /\ op.name = "sendCommand" /\ op.arg = C_TS_TA_1
  /\ hist.tests = 3 /\ hist.accepted /\ hist.base = 0
  /\ out[1].tsc = 2

\* the length field of a command of the given type built with the type's
\* own object: for the reset process command that is iec_type105, one byte
AsduLength(type) == IF type = C_RP_NA_1 THEN 4 + 6 + 1 ELSE CmdLength(type)

(***************************************************************************)
(* C34: every command of a supported type that sendCommand writes has the  *)
(* type of the object in its type field, one object, cause ACTIVATION, and *)
(* the length of an APDU carrying that type's object.                      *)
(***************************************************************************)
C34_CommandFrame ==
  (op.name = "sendCommand" /\ op.flag /\ sock) =>
    /\ Len(out) = 1
    /\ out[1].type = op.arg /\ out[1].num = 1 /\ out[1].cause = ACTIVATION
    /\ out[1].length = AsduLength(op.arg)

\* a reset process command written with another type in its type field and
\* the length of a test command
C34_Witness ==
  /\ op.name = "sendCommand" /\ op.arg = C_RP_NA_1 /\ op.flag /\ sock
  /\ Len(out) = 1 /\ out[1].type # C_RP_NA_1
  /\ out[1].length = CmdLength(C_TS_TA_1)

\* a single command, type 45, is written as an APDU of 16 bytes
C34_SingleCommand ==
  /\ op.name = "sendCommand" /\ op.arg = 45 /\ sock
  /\ Len(out) = 1 /\ out[1].type = 45 /\ out[1].length + 2 = 16
  /\ out[1].cause = ACTIVATION

(***************************************************************************)
(* C35: a STOPDT act, STOPDT con, TESTFR con or S-frame received leaves    *)
(* TxOk, VS, VR, the GI object counter and the four timers as they were,   *)
(* and nothing is sent in response.                                        *)
(***************************************************************************)
C35_LoggedOnly ==
  [][(op'.name = "recv" /\ op'.f \in QuietFrames) =>
       /\ TxOk' = TxOk /\ VS' = VS /\ VR' = VR
       /\ GIObjectCnt' = GIObjectCnt
       /\ tout_startdtact' = tout_startdtact
       /\ tout_supervisory' = tout_supervisory
       /\ tout_testfr' = tout_testfr /\ tout_gi' = tout_gi
       /\ connectedTCP' = connectedTCP /\ sock' = sock
       /\ out' = <<>> /\ tcpCalls' = 0 /\ up' = <<>>]_vars

\* a STOPDT con received in a Data-enabled session with t2, t3 and tGI
\* armed, frames sent and received and GI objects counted
C35_Witness ==
  /\ op.name = "recv" /\ op.f = CtlFrame(STOPDTCON)
  /\ TxOk /\ connectedTCP /\ VS > 0 /\ VR > 0 /\ GIObjectCnt > 0
  /\ tout_supervisory > 0 /\ tout_testfr > 0 /\ tout_gi > 0
  /\ out = <<>>

\* a TESTFR con received with t3 armed and t1 still running
C35_WitnessTestFrCon ==
  /\ op.name = "recv" /\ op.f = CtlFrame(TESTFRCON)
  /\ ~TxOk /\ tout_startdtact > 0 /\ tout_testfr > 0
  /\ out = <<>>

(***************************************************************************)
(* C36: whenever TxOk is true the engine is connected and so is the        *)
(* socket, and TxOk is false after every connect and every disconnect.     *)
(***************************************************************************)
C36_TxOkOnlyConnected ==
  /\ TxOk => (connectedTCP /\ sock)
  /\ op.name \in {"connect", "disconnect"} => ~TxOk

\* a session made by a second connect attempt is Data-enabled
C36_Witness ==
  /\ op.name = "recv" /\ op.f = CtlFrame(STARTDTCON)
  /\ TxOk /\ connectedTCP /\ sock /\ Len(hist.tries) = 2

\* an I-frame out of sequence closed a session that had sent a general
\* interrogation, so had been Data-enabled
C36_WitnessSequenceError ==
  /\ op.name = "recv" /\ IsData(op.f) /\ op.flag
  /\ ~sock /\ ~connectedTCP /\ ~TxOk /\ VS > 0

\* the host forbade connections in such a session
C36_WitnessDisabled ==
  /\ op.name = "disable_connect"
  /\ ~sock /\ ~connectedTCP /\ ~TxOk /\ VS > 0

(***************************************************************************)
(* C37: a TESTFRACT is written only by the tick that takes t3 from 1 to 0, *)
(* and that tick writes exactly one; t3 then rests at 0 until an I-frame   *)
(* is accepted, which loads it with t3_testfr: no tick, TESTFRCON or other *)
(* call moves it; and no tick closes the connection.                       *)
(***************************************************************************)
C37_OneProbePerArming ==
  [][/\ TestFrActs' # <<>> =>
          /\ op'.name = "tick" /\ tout_testfr = 1 /\ tout_testfr' = 0
          /\ Len(TestFrActs') = 1
     /\ (op'.name = "tick" /\ connectedTCP /\ TxOk /\ tout_testfr = 1) =>
          Len(TestFrActs') = 1
     /\ (tout_testfr = 0 /\ tout_testfr' # 0) =>
          /\ op'.name = "recv" /\ IsData(op'.f)
          /\ tout_testfr' = t3_testfr
     /\ op'.name = "tick" =>
          (sock' = sock /\ connectedTCP' = connectedTCP)]_vars

\* t3 ticks in a row in a Data-enabled session where t3 had run out: no
\* TESTFRCON came, nothing more is written and the connection is up
C37_Witness ==
  /\ op.name = "tick" /\ op.arg = t3_testfr
  /\ TxOk /\ connectedTCP /\ sock /\ hist.accepted
  /\ tout_testfr = 0 /\ TestFrActs = <<>>

\* a TESTFRCON received with t3 at 0 leaves it there
C37_WitnessCon ==
  /\ op.name = "recv" /\ op.f = CtlFrame(TESTFRCON)
  /\ TxOk /\ tout_testfr = 0

(***************************************************************************)
(* C38: an accepted I-frame loads an idle t2 with t2_supervisory and then  *)
(* takes one off; when that brings t2 to 0 one S-frame carrying VR is      *)
(* written and t2 is idle again.  So fewer than t2_supervisory I-frames    *)
(* are accepted in a row, with no tick between them, without an S-frame;   *)
(* and while t2 is armed an S-frame is written later on unless the         *)
(* connection is lost.                                                     *)
(***************************************************************************)
C38_WindowAcknowledged ==
  /\ [][(op'.name = "recv" /\ IsData(op'.f) /\ sock') =>
          LET n == (IF tout_supervisory < 0 THEN t2_supervisory
                    ELSE tout_supervisory) - 1
          IN IF n = 0
               THEN /\ tout_supervisory' = -1
                    /\ SFrames(out') = <<UFrame(SUPERVISORY, VR')>>
               ELSE /\ tout_supervisory' = n
                    /\ SFrames(out') = <<>>]_vars
  /\ [](hist.run >= 0 =>
          /\ hist.run < t2_supervisory
          /\ hist.run > 0 => tout_supervisory = t2_supervisory - hist.run)
  /\ (tout_supervisory > 0) ~> (SFrames(out) # <<>> \/ ~sock)

\* the t2_supervisory-th I-frame accepted in a row, no tick in between, is
\* answered by the S-frame that acknowledges all of them
C38_Witness ==
  /\ AcceptedData /\ hist.run = 0 /\ hist.t2.k = 0
  /\ hist.lastNS = t2_supervisory - 1
  /\ SFrames(out) = <<UFrame(SUPERVISORY, 2 * t2_supervisory)>>
  /\ tout_supervisory = -1

(***************************************************************************)
(* C39: parseAPDU called with accountandrespond = false leaves VS, VR,     *)
(* TxOk, the GI object counter and the four timers as they were and sends  *)
(* nothing, whatever the frame.                                            *)
(***************************************************************************)
C39_DisplayOnly ==
  [][op'.name = "parseAPDU" =>
       /\ VS' = VS /\ VR' = VR /\ TxOk' = TxOk
       /\ GIObjectCnt' = GIObjectCnt
       /\ tout_startdtact' = tout_startdtact
       /\ tout_supervisory' = tout_supervisory
       /\ tout_testfr' = tout_testfr /\ tout_gi' = tout_gi
       /\ out' = <<>> /\ tcpCalls' = 0]_vars

\* a test command decoded for display is confirmed on the wire and VS
\* counts the confirmation
C39_Witness ==
  /\ op.name = "parseAPDU" /\ op.f.type = C_TS_TA_1 /\ op.f.cause = ACTIVATION
  /\ Len(out) = 1 /\ out[1].type = C_TS_TA_1 /\ out[1].cause = ACTCONFIRM
  /\ out[1].NS = 0 /\ VS = 2 /\ VR = op.arg

\* an interrogation confirmation decoded for display, in a session that has
\* accepted an interrogated object and nothing else, restarts tGI and
\* clears the GI object counter
C39_WitnessInterrogation ==
  /\ op.name = "parseAPDU" /\ op.f.type = INTERROGATION
  /\ op.f.cause = ACTCONFIRM
  /\ sock /\ hist.lastNS = 0 /\ ~TxOk
  /\ GIObjectCnt = 0 /\ tout_gi = gi_period

\* what the flag does guard: a STARTDTCON and an out-of-sequence I-frame
\* decoded for display leave TxOk, VR, t2 and t3 alone
C39_GuardedParts ==
  [][op'.name = "parseAPDU" =>
       /\ VR' = VR /\ TxOk' = TxOk /\ sock' = sock
       /\ tout_startdtact' = tout_startdtact
       /\ tout_supervisory' = tout_supervisory
       /\ tout_testfr' = tout_testfr]_vars

(***************************************************************************)
(* C40: between a disconnect and the next connect no call arms a timer,    *)
(* and a tick changes nothing of the engine and writes nothing.            *)
(***************************************************************************)
C40_IdleWhileDisconnected ==
  [][(hist.closed /\ op'.name # "connect") =>
       /\ tout_startdtact' > 0 => tout_startdtact' = tout_startdtact
       /\ tout_supervisory' > 0 => tout_supervisory' = tout_supervisory
       /\ tout_testfr' > 0 => tout_testfr' = tout_testfr
       /\ tout_gi' > 0 => tout_gi' = tout_gi
       /\ op'.name = "tick" =>
            /\ UNCHANGED <<connectedTCP, TxOk, VS, VR, tout_startdtact,
                           tout_supervisory, tout_testfr, tout_gi,
                           GIObjectCnt>>
            /\ out' = <<>> /\ tcpCalls' = 0]_vars

\* a general interrogation asked for after the disconnect has armed tGI
C40_Witness ==
  /\ op.name = "solicitGI" /\ hist.closed /\ ~connectedTCP /\ ~sock
  /\ tout_gi = gi_retry_time /\ out = <<>>

\* in the next session, before STARTDTCON and with nothing received or
\* asked for, the tick finds tGI run out and writes a general interrogation
C40_FiresBeforeStartDT ==
  /\ op.name = "tick" /\ connectedTCP /\ ~TxOk
  /\ ~hist.accepted /\ hist.iSent = 1
  /\ Len(GIFrames(out)) = 1 /\ VS = 2

\* the part about the tick: while disconnected it changes nothing
C40_TickIdleWhileDisconnected ==
  [][(~connectedTCP /\ op'.name = "tick") =>
       /\ UNCHANGED <<connectedTCP, TxOk, VS, VR, tout_startdtact,
                      tout_supervisory, tout_testfr, tout_gi, GIObjectCnt>>
       /\ out' = <<>> /\ tcpCalls' = 0]_vars

====
